---- MODULE Spec2Model ----
(***************************************************************************)
(* Model of the Jobber price-sync engine (app/sync.py, app/jobber_oauth.py, *)
(* app/database.py): one run of run_sync or run_sync_preview for one        *)
(* account, against a remote catalog endpoint and a remote token endpoint.  *)
(*                                                                          *)
(* Strings are sequences of one-character strings.  Money is in cents.      *)
(* Tokens are natural numbers: 0 is the empty string, and the pair issued   *)
(* by the g-th answer of the token endpoint is (access g, refresh g).       *)
(***************************************************************************)
EXTENDS Integers, Sequences, FiniteSets, TLC

(***************************************************************************)
(* Bounds of the model.                                                     *)
(***************************************************************************)
MaxRows == 2
MaxIssued == 3
PageSize == 1
\* remote requests of one run that are answered with a failure
MaxFaults == 2
\* length of the product list in a call of _resolve_from_list on its own
MaxProducts == 3

(***************************************************************************)
(* Program constants.                                                       *)
(***************************************************************************)
REFRESH_BUFFER_SECONDS == 120
TokenLifetime == 3600

\* Python's None: the string "None" where the other values are strings (ids,
\* error messages), the empty sequence where they are numbers or rows, a
\* present value x being << x >>.
None == "None"
Absent == << >>
Some(x) == << x >>
Val(o) == o[1]

(***************************************************************************)
(* Characters and strings.                                                  *)
(***************************************************************************)
CharOrd(c) ==
    CASE c = " " -> 32
      [] c = "A" -> 65
      [] c = "a" -> 97
      [] c = "b" -> 98
      [] c = "c" -> 99
      [] c = "k" -> 107
      [] OTHER -> 0

Lower(c) == IF c = "A" THEN "a" ELSE c

IsSpace(c) == c = " "

LowerStr(s) == [n \in 1..Len(s) |-> Lower(s[n])]

\* s.strip()
RECURSIVE LStrip(_)
LStrip(s) == IF s # << >> /\ IsSpace(Head(s)) THEN LStrip(Tail(s)) ELSE s

RECURSIVE RStrip(_)
RStrip(s) ==
    IF s # << >> /\ IsSpace(s[Len(s)]) THEN RStrip(SubSeq(s, 1, Len(s) - 1)) ELSE s

Strip(s) == RStrip(LStrip(s))

\* re.split(r"\s+", s) for a stripped, non-empty s: the maximal runs of
\* non-space characters, in order.
RECURSIVE SplitWs(_, _)
SplitWs(s, cur) ==
    IF s = << >> THEN (IF cur = << >> THEN << >> ELSE << cur >>)
    ELSE IF IsSpace(Head(s))
         THEN (IF cur = << >> THEN SplitWs(Tail(s), << >>)
               ELSE << cur >> \o SplitWs(Tail(s), << >>))
         ELSE SplitWs(Tail(s), Append(cur, Head(s)))

\* " ".join(tokens)
RECURSIVE JoinSp(_)
JoinSp(toks) ==
    IF toks = << >> THEN << >>
    ELSE IF Len(toks) = 1 THEN toks[1]
    ELSE toks[1] \o << " " >> \o JoinSp(Tail(toks))

\* _normalize: lowercase, trim, collapse whitespace runs to one space.
_normalize(s) ==
    IF s = << >> THEN << >> ELSE JoinSp(SplitWs(LowerStr(Strip(s)), << >>))

\* Python's str < str: lexicographic by code point.
RECURSIVE StrLess(_, _)
StrLess(a, b) ==
    IF b = << >> THEN FALSE
    ELSE IF a = << >> THEN TRUE
    ELSE IF CharOrd(Head(a)) < CharOrd(Head(b)) THEN TRUE
    ELSE IF CharOrd(Head(a)) > CharOrd(Head(b)) THEN FALSE
    ELSE StrLess(Tail(a), Tail(b))

\* sorted(tokens)
RECURSIVE InsertSorted(_, _)
InsertSorted(t, toks) ==
    IF toks = << >> THEN << t >>
    ELSE IF StrLess(t, Head(toks)) THEN << t >> \o toks
    ELSE << Head(toks) >> \o InsertSorted(t, Tail(toks))

RECURSIVE SortTokens(_)
SortTokens(toks) ==
    IF toks = << >> THEN << >>
    ELSE InsertSorted(toks[Len(toks)], SortTokens(SubSeq(toks, 1, Len(toks) - 1)))

(***************************************************************************)
(* difflib.SequenceMatcher(None, a, b).ratio() = 2*M / (len a + len b),     *)
(* M the total size of the matching blocks found by repeatedly taking the   *)
(* longest common block (earliest in a, then earliest in b) and recursing   *)
(* to its left and to its right.                                            *)
(***************************************************************************)
\* length of the common run starting at a[x], b[y], inside a[..ahi], b[..bhi]
RECURSIVE RunLen(_, _, _, _, _, _)
RunLen(a, b, x, y, ahi, bhi) ==
    IF x <= ahi /\ y <= bhi /\ a[x] = b[y]
    THEN 1 + RunLen(a, b, x + 1, y + 1, ahi, bhi)
    ELSE 0

\* find_longest_match over a[alo..ahi], b[blo..bhi] (inclusive, 1-based):
\* <<x, y, k>> with k maximal, then x minimal, then y minimal.
FindLongestMatch(a, b, alo, ahi, blo, bhi) ==
    LET cand == { <<x, y, RunLen(a, b, x, y, ahi, bhi)>> : x \in alo..ahi, y \in blo..bhi }
        best == CHOOSE m \in cand :
                  \A n \in cand :
                     \/ m[3] > n[3]
                     \/ m[3] = n[3] /\ m[1] < n[1]
                     \/ m[3] = n[3] /\ m[1] = n[1] /\ m[2] <= n[2]
    IN  IF cand = {} THEN <<alo, blo, 0>> ELSE best

\* get_matching_blocks: the size of the longest block m plus what the pieces
\* to its left and to its right contribute.
RECURSIVE MatchCount(_, _, _, _, _, _)
RECURSIVE MatchCountAround(_, _, _, _, _, _, _)
MatchCountAround(a, b, alo, ahi, blo, bhi, m) ==
    IF m[3] = 0 THEN 0
    ELSE m[3]
         + MatchCount(a, b, alo, m[1] - 1, blo, m[2] - 1)
         + MatchCount(a, b, m[1] + m[3], ahi, m[2] + m[3], bhi)

MatchCount(a, b, alo, ahi, blo, bhi) ==
    IF alo > ahi \/ blo > bhi THEN 0
    ELSE MatchCountAround(a, b, alo, ahi, blo, bhi,
                          FindLongestMatch(a, b, alo, ahi, blo, bhi))

\* A score is the fraction <<numerator, denominator>>; 0.0 is <<0, 1>>.
Ratio(a, b) == << 2 * MatchCount(a, b, 1, Len(a), 1, Len(b)), Len(a) + Len(b) >>

ScoreLess(p, q) == p[1] * q[2] < q[1] * p[2]
ScoreEq(p, q) == p[1] * q[2] = q[1] * p[2]
ScoreGeq(p, q) == ~ScoreLess(p, q)

\* " ".join(sorted(re.split(r"\s+", n)))
TokenSort(n) == JoinSp(SortTokens(SplitWs(n, << >>)))

\* _fuzzy_score on the normalized strings na, nb (token_sort = True)
FuzzyScoreNorm(na, nb) ==
    IF na = << >> \/ nb = << >> THEN <<0, 1>>
    ELSE Ratio(TokenSort(na), TokenSort(nb))

_fuzzy_score(a, b) == FuzzyScoreNorm(_normalize(a), _normalize(b))


(***************************************************************************)
(* The remote catalog and the feed.                                         *)
(***************************************************************************)
\* Remote catalog at the start of a run, in the remote service's order.
\* internalUnitCost is in cents; Absent is an entry without a cost.
InitialCatalog ==
    << [id |-> "id-1", name |-> <<"a", "b">>, code |-> << >>, internalUnitCost |-> Some(500)],
       [id |-> "id-2", name |-> <<"c">>, code |-> <<"k">>, internalUnitCost |-> Absent],
       [id |-> "id-3", name |-> <<"k">>, code |-> << >>, internalUnitCost |-> Some(900)] >>

\* Feed rows (part_num, cost in cents) a feed is built from.
RowChoices ==
    { [sku |-> <<"a", "b">>, cost |-> 701],
      [sku |-> <<"a", "b">>, cost |-> 300],
      [sku |-> <<"a", "b", "c">>, cost |-> 599],
      [sku |-> <<"k">>, cost |-> 0] }

RECURSIVE SeqsUpTo(_, _)
SeqsUpTo(S, n) ==
    IF n = 0 THEN { << >> }
    ELSE LET shorter == SeqsUpTo(S, n - 1)
         IN  shorter \cup { Append(q, x) : q \in { r \in shorter : Len(r) = n - 1 }, x \in S }

\* parse_csv_from_bytes never returns an empty list.
Feeds == { f \in SeqsUpTo(RowChoices, MaxRows) : f # << >> }

\* (fuzzy_match, fuzzy_threshold in percent) as the callers pass them.
FuzzyChoices == { <<FALSE, 90>>, <<TRUE, 80>>, <<TRUE, 0>> }

\* markup_percent as the callers pass it: None, or a number.
MarkupChoices == { Absent, Some(0), Some(25), Some(-5) }

(***************************************************************************)
(* Credential store (app/database.py) and token endpoint.                   *)
(***************************************************************************)
\* The store holds at most one row for the account: Absent, or Some(row).
StoreChoices ==
    { Absent,
      Some([jobber_account_name |-> "acct", access_token |-> 1, refresh_token |-> 1,
            access_token_expires_at |-> Absent]),
      Some([jobber_account_name |-> "acct", access_token |-> 1, refresh_token |-> 1,
            access_token_expires_at |-> Some(REFRESH_BUFFER_SECONDS)]),
      Some([jobber_account_name |-> "acct", access_token |-> 0, refresh_token |-> 1,
            access_token_expires_at |-> Absent]) }

\* get_connection_by_account_id: a copy of the stored row, or None.
get_connection_by_account_id(st) == st

\* update_tokens: one UPDATE of access token, refresh token and expiry; the
\* account name is kept; no row, no effect.
update_tokens(st, access, refresh, expires_at) ==
    IF st = Absent THEN Absent
    ELSE Some([Val(st) EXCEPT !.access_token = access, !.refresh_token = refresh,
                              !.access_token_expires_at = expires_at])

\* expires_in of a token response: missing, a number of seconds, or a value
\* int() rejects.
ExpiresInChoices ==
    { [kind |-> "missing", seconds |-> 0],
      [kind |-> "int", seconds |-> TokenLifetime],
      [kind |-> "invalid", seconds |-> 0] }

\* What the token endpoint may answer to refresh_access_token(rt): an error
\* (non-2xx, network failure, body missing a token), or, for the refresh
\* token it currently accepts, the next pair.  Rotation: a refresh token is
\* accepted once.
TokenResponses(rt, accepted, n) ==
    { [ok |-> FALSE, g |-> 0, expires_in |-> [kind |-> "missing", seconds |-> 0],
       refused |-> ~(rt # 0 /\ rt = accepted /\ n < MaxIssued)] }
    \cup ( IF rt # 0 /\ rt = accepted /\ n < MaxIssued
           THEN { [ok |-> TRUE, g |-> n + 1, expires_in |-> e, refused |-> FALSE] :
                    e \in ExpiresInChoices }
           ELSE {} )

\* now + timedelta(seconds=int(expires_in)), for an expires_in int() accepts
NewExpiresAt(t, expires_in) ==
    IF expires_in.kind = "missing" THEN Absent ELSE Some(t + expires_in.seconds)

(***************************************************************************)
(* Remote catalog client.                                                   *)
(***************************************************************************)
CatalogResponses == { "ok", "unauth", "fail", "neterr" }

\* One page of the paged catalog query after cursor `after` (0: no cursor);
\* the code field is returned only by the query that asks for it.
PageNodes(cat, after, withCode) ==
    LET lo == after + 1
        hi == IF after + PageSize < Len(cat) THEN after + PageSize ELSE Len(cat)
    IN  [n \in 1..(hi - lo + 1) |->
            [id |-> cat[lo + n - 1].id,
             name |-> cat[lo + n - 1].name,
             code |-> IF withCode THEN cat[lo + n - 1].code ELSE << >>,
             internalUnitCost |-> cat[lo + n - 1].internalUnitCost]]

HasNextPage(cat, after) == after + PageSize < Len(cat)

EndCursor(cat, after) == IF after + PageSize < Len(cat) THEN after + PageSize ELSE Len(cat)

\* _parse_current_cost: float(internalUnitCost), or None when it is missing.
_parse_current_cost(node) ==
    IF node.internalUnitCost = Absent THEN Absent ELSE Some(Val(node.internalUnitCost))

NotFound == [id |-> None, cost |-> Absent, fuzzy |-> FALSE, name |-> << >>]

\* A variant of the exact pass that looks for a code match in the whole
\* list before it looks for a name match.
ExactPass_CodeFirstInList(sku_norm, products, match_by_code_first) ==
    LET by_code == { n \in DOMAIN products :
                       match_by_code_first /\ _normalize(Strip(products[n].code)) = sku_norm }
        by_name == { n \in DOMAIN products : _normalize(Strip(products[n].name)) = sku_norm }
        first(S) == CHOOSE n \in S : \A m \in S : n <= m
        hit(n) == [id |-> products[n].id, cost |-> _parse_current_cost(products[n]),
                   fuzzy |-> FALSE, name |-> Strip(products[n].name)]
    IN  IF by_code # { } THEN hit(first(by_code))
        ELSE IF by_name # { } THEN hit(first(by_name))
        ELSE NotFound

\* The exact pass of _resolve_from_list.
RECURSIVE ExactPass(_, _, _)
ExactPass(sku_norm, products, match_by_code_first) ==
    IF products = << >> THEN NotFound
    ELSE LET node == Head(products)
         IN  IF \/ match_by_code_first /\ _normalize(Strip(node.code)) = sku_norm
                \/ _normalize(Strip(node.name)) = sku_norm
             THEN [id |-> node.id, cost |-> _parse_current_cost(node), fuzzy |-> FALSE,
                   name |-> Strip(node.name)]
             ELSE ExactPass(sku_norm, Tail(products), match_by_code_first)

\* score = max(scores): the name's score, and the code's when there is a code
MaxScore(code, sn, sc) == IF code # << >> /\ ScoreLess(sn, sc) THEN sc ELSE sn

NodeCode(node, match_by_code_first) ==
    IF match_by_code_first THEN Strip(node.code) ELSE << >>

NodeScore(sku, node, match_by_code_first) ==
    MaxScore(NodeCode(node, match_by_code_first),
             _fuzzy_score(sku, Strip(node.name)),
             _fuzzy_score(sku, NodeCode(node, match_by_code_first)))

\* A variant that keeps the first of several equally scored nodes.
FuzzyStep_FirstWins(acc, node, score, threshold) ==
    IF ScoreGeq(score, threshold) /\ ScoreLess(acc.best_score, score)
    THEN [best_id |-> node.id, best_cost |-> _parse_current_cost(node),
          best_name |-> Strip(node.name), best_score |-> score, tie |-> FALSE]
    ELSE acc

\* A variant that tracks only the nodes scoring strictly above the threshold.
FuzzyStep_StrictlyAbove(acc, node, score, threshold) ==
    IF ScoreLess(threshold, score)
    THEN IF ScoreLess(acc.best_score, score)
         THEN [best_id |-> node.id, best_cost |-> _parse_current_cost(node),
               best_name |-> Strip(node.name), best_score |-> score, tie |-> FALSE]
         ELSE IF ScoreEq(score, acc.best_score)
              THEN [acc EXCEPT !.tie = TRUE]
              ELSE acc
    ELSE acc

\* One iteration of the fuzzy loop of _resolve_from_list on a node with the
\* given score: acc carries best_id, best_cost, best_name, best_score, tie.
FuzzyStep(acc, node, score, threshold) ==
    IF ScoreGeq(score, threshold)
    THEN IF ScoreLess(acc.best_score, score)
         THEN [best_id |-> node.id, best_cost |-> _parse_current_cost(node),
               best_name |-> Strip(node.name), best_score |-> score, tie |-> FALSE]
         ELSE IF ScoreEq(score, acc.best_score)
              THEN [acc EXCEPT !.tie = TRUE]
              ELSE acc
    ELSE acc

\* The fuzzy loop of _resolve_from_list over products.
RECURSIVE FuzzyPass(_, _, _, _, _)
FuzzyPass(sku, products, match_by_code_first, threshold, acc) ==
    IF products = << >> THEN acc
    ELSE FuzzyPass(sku, Tail(products), match_by_code_first, threshold,
                   FuzzyStep(acc, Head(products),
                             NodeScore(sku, Head(products), match_by_code_first),
                             threshold))

FuzzyStart ==
    [best_id |-> None, best_cost |-> Absent, best_name |-> << >>,
     best_score |-> <<-1, 1>>, tie |-> FALSE]

\* A variant of the returns below that runs the fuzzy pass whatever the
\* threshold is.
ResolveResult_AnyThreshold(exact, exact_only, threshold, acc) ==
    IF exact.id # None THEN exact
    ELSE IF exact_only THEN NotFound
    ELSE IF acc.best_id # None /\ ~acc.tie
         THEN [id |-> acc.best_id, cost |-> acc.best_cost, fuzzy |-> TRUE,
               name |-> acc.best_name]
         ELSE NotFound

\* The returns of _resolve_from_list, given the exact pass's result and the
\* fuzzy loop's final acc.
ResolveResult(exact, exact_only, threshold, acc) ==
    IF exact.id # None THEN exact
    ELSE IF exact_only \/ threshold[1] <= 0 THEN NotFound
    ELSE IF acc.best_id # None /\ ~acc.tie
         THEN [id |-> acc.best_id, cost |-> acc.best_cost, fuzzy |-> TRUE,
               name |-> acc.best_name]
         ELSE NotFound

\* _resolve_from_list(sku, products, match_by_code_first, exact_only, fuzzy_threshold);
\* the threshold is a fraction <<numerator, denominator>>.
_resolve_from_list(sku, products, match_by_code_first, exact_only, threshold) ==
    ResolveResult(ExactPass(_normalize(sku), products, match_by_code_first),
                  exact_only, threshold,
                  FuzzyPass(sku, products, match_by_code_first, threshold, FuzzyStart))

\* The scan of one page's nodes in _find_id_by_sku: exact, case-sensitive.
RECURSIVE FindInNodes(_, _, _)
FindInNodes(sku, nodes, match_by_code_first) ==
    IF nodes = << >> THEN NotFound
    ELSE LET node == Head(nodes)
         IN  IF \/ match_by_code_first /\ Strip(node.code) = sku
                \/ Strip(node.name) = sku
             THEN [id |-> node.id, cost |-> _parse_current_cost(node), fuzzy |-> FALSE,
                   name |-> Strip(node.name)]
             ELSE FindInNodes(sku, Tail(nodes), match_by_code_first)

\* The nodes of a page that _fetch_all_products keeps: those with an id.
RECURSIVE WithId(_)
WithId(nodes) ==
    IF nodes = << >> THEN << >>
    ELSE IF Head(nodes).id # None THEN << Head(nodes) >> \o WithId(Tail(nodes))
    ELSE WithId(Tail(nodes))

\* The remote service applies a successful cost mutation to the entry.
ApplyCost(cat, node_id, cost) ==
    [n \in 1..Len(cat) |->
        IF cat[n].id = node_id THEN [cat[n] EXCEPT !.internalUnitCost = Some(cost)] ELSE cat[n]]

RemoteCost(cat, node_id) ==
    LET hits == { n \in 1..Len(cat) : cat[n].id = node_id }
    IN  IF hits = {} THEN Absent ELSE cat[CHOOSE n \in hits : TRUE].internalUnitCost

(***************************************************************************)
(* Orchestrator arithmetic.                                                 *)
(***************************************************************************)
\* markup_val = 0.0 if markup_percent is None else max(0.0, float(markup_percent))
MarkupVal(markup_percent) ==
    IF markup_percent = Absent THEN 0
    ELSE IF Val(markup_percent) > 0 THEN Val(markup_percent) ELSE 0

\* round(x, 2) for x = num / (100 * 100) dollars, as cents: the nearest
\* cent, the even one when exactly between two.
Round2(num) ==
    LET q == num \div 100
        r == num % 100
    IN  IF r * 2 < 100 THEN q
        ELSE IF r * 2 > 100 THEN q + 1
        ELSE IF q % 2 = 0 THEN q ELSE q + 1

\* A variant that computes the markup amount instead of the marked-up price.
UnitPrice_MarkupAmount(cost, markup_val) == Round2(cost * markup_val)

\* unit_price = round(cost * (1.0 + markup_val / 100.0), 2), in cents
UnitPrice(cost, markup_val) == Round2(cost * (100 + markup_val))

\* threshold = max(0.0, min(1.0, float(fuzzy_threshold))) if fuzzy_match else 0.0
Threshold(fuzzy_match_on, fuzzy_threshold_pct) ==
    IF ~fuzzy_match_on THEN <<0, 100>>
    ELSE IF fuzzy_threshold_pct > 100 THEN <<100, 100>>
    ELSE IF fuzzy_threshold_pct < 0 THEN <<0, 100>>
    ELSE <<fuzzy_threshold_pct, 100>>

(***************************************************************************)
(* State.                                                                   *)
(***************************************************************************)
VARIABLES
    \* the call: which entry point, and its arguments; for a call of a helper
    \* function on its own, the function's arguments
    mode, rows, only_increase_cost, fuzzy_match, fuzzy_threshold, markup_percent, call,
    \* the environment: credential store, token endpoint, remote catalog, clock
    store, accepted_refresh, issued, catalog, now, faults,
    \* the run: position, and the locals of run_sync / run_sync_preview
    pc, conn_row, token, match_by_code_first, products, out, after, i,
    node_id, current_cost, retrying, retry_op, result,
    \* observation: the last remote request and its answer, the number of
    \* remote requests, the refresh tokens submitted (with the answer), each
    \* row's resolution, and the mutation requests issued (with the entry's
    \* remote cost at that moment and the answer)
    wire, ncalls, submitted, resolved, mutations

args == << mode, rows, only_increase_cost, fuzzy_match, fuzzy_threshold, markup_percent, call >>
env == << store, accepted_refresh, issued, catalog, now >>
locals == << conn_row, token, match_by_code_first, products, out, after, i,
             node_id, current_cost, retrying, retry_op >>
vars == << args, env, faults, pc, locals, result, wire, ncalls, submitted, resolved, mutations >>

\* No helper function is called on its own.
NoCall == [fn |-> "none"]

NoWire == [op |-> "none", tok |-> 0, row |-> 0, after |-> 0, node_id |-> None,
           cost |-> 0, price |-> 0, resp |-> "none", slept |-> FALSE]

SyncResult0(markup_val) ==
    [updated |-> 0, skus_not_found |-> << >>, skipped_protected |-> 0,
     fuzzy_matched_count |-> 0, markup_percent |-> markup_val, error |-> None]

PreviewResult0 ==
    [increases |-> 0, decreases |-> 0, unchanged |-> 0, skus_not_found |-> << >>,
     fuzzy_matched_count |-> 0, error |-> None]

Init ==
    /\ mode \in { "run_sync", "run_sync_preview" }
    /\ rows \in Feeds
    /\ \E f \in FuzzyChoices : fuzzy_match = f[1] /\ fuzzy_threshold = f[2]
    \* run_sync_preview has neither parameter
    /\ only_increase_cost \in (IF mode = "run_sync" THEN BOOLEAN ELSE { FALSE })
    /\ markup_percent \in (IF mode = "run_sync" THEN MarkupChoices ELSE { Some(0) })
    /\ call = NoCall
    /\ store \in StoreChoices
    /\ accepted_refresh = 1
    /\ issued = 1
    /\ catalog = InitialCatalog
    /\ now = 0
    /\ faults = 0
    /\ pc = "start"
    /\ conn_row = Absent
    /\ token = 0
    /\ match_by_code_first = FALSE
    /\ products = << >>
    /\ out = << >>
    /\ after = 0
    /\ i = 1
    /\ node_id = None
    /\ current_cost = Absent
    /\ retrying = FALSE
    /\ retry_op = "none"
    /\ result = IF mode = "run_sync" THEN SyncResult0(MarkupVal(markup_percent))
                ELSE PreviewResult0
    /\ wire = NoWire
    /\ ncalls = 0
    /\ submitted = << >>
    /\ resolved = << >>
    /\ mutations = << >>

apply_markup == MarkupVal(markup_percent) > 0
threshold == Threshold(fuzzy_match, fuzzy_threshold)

(***************************************************************************)
(* The answers of the remote services, at most MaxFaults failures a run.    *)
(***************************************************************************)
\* What a catalog request may be answered with.
CatalogAnswers == IF faults < MaxFaults THEN CatalogResponses ELSE { "ok" }

CatalogAnswered(resp) == faults' = IF resp = "ok" THEN faults ELSE faults + 1

\* What the probe may be answered with: a schema without the code field
\* answers it with GraphQL errors, which is no failure of the service.
ProbeAnswers == CatalogAnswers \cup { "fail" }

ProbeAnswered(resp) == faults' = IF resp \in { "ok", "fail" } THEN faults ELSE faults + 1

\* The token responses with a pair the refresh code accepts.
GoodTokenResponses(all) == { r \in all : r.ok /\ r.expires_in.kind # "invalid" }

\* What a token request for refresh token rt may be answered with: a stale
\* refresh token is refused in any case.
TokenAnswersOf(all) ==
    IF faults < MaxFaults \/ GoodTokenResponses(all) = { } THEN all ELSE GoodTokenResponses(all)

TokenAnswers(rt) == TokenAnswersOf(TokenResponses(rt, accepted_refresh, issued))

TokenAnswered(r) ==
    faults' = IF r.ok /\ r.expires_in.kind # "invalid" THEN faults
              ELSE IF ~r.ok /\ r.refused THEN faults
              ELSE faults + 1

(***************************************************************************)
(* Helpers of the actions.                                                  *)
(***************************************************************************)
\* A request goes out and is answered.
Sent(w) == wire' = w /\ ncalls' = ncalls + 1

\* time.sleep(RATE_LIMIT_SLEEP_SEC) after a catalog request: the statement
\* follows the request at the end of a page iteration and after the probe, a
\* scan or a mutation has returned, so it runs when the request was answered
\* with anything but a 401, which raises TokenExpiredError past it.  wire.slept
\* records it with the request.
RateLimitSleep(resp) == resp \in { "ok", "fail" }

\* The run returns its result.
Return(res) == pc' = "done" /\ result' = res

\* The first step of a row's processing: the fuzzy loop resolves from the
\* list, the other loop starts a scan from the first page.
RowPc == IF fuzzy_match THEN "resolve" ELSE "find"

\* A variant that starts the next row at its mutation.
NextRow_AtMutation(k) ==
    IF k < Len(rows) THEN pc' = "mutate" /\ i' = k + 1 ELSE pc' = "done" /\ i' = k

\* Row k is finished: go on to row k + 1, or leave the loop and return.
NextRow(k) ==
    IF k < Len(rows) THEN pc' = RowPc /\ i' = k + 1 ELSE pc' = "done" /\ i' = k

\* A variant that goes on to the probe when the store has no connection.
Connect_IgnoresMissing ==
    /\ pc = "start"
    /\ conn_row' = get_connection_by_account_id(store)
    /\ pc' = IF conn_row' = Absent THEN "probe" ELSE "get_token"
    /\ result' = result
    /\ UNCHANGED << args, env, faults, token, match_by_code_first, products, out, after, i,
                    node_id, current_cost, retrying, retry_op,
                    wire, ncalls, submitted, resolved, mutations >>

(***************************************************************************)
(* run_sync / run_sync_preview: look up the connection.                     *)
(***************************************************************************)
Connect ==
    /\ pc = "start"
    /\ conn_row' = get_connection_by_account_id(store)
    /\ IF conn_row' = Absent
       THEN Return([result EXCEPT !.error = "Not connected; please connect to Jobber first."])
       ELSE pc' = "get_token" /\ result' = result
    /\ UNCHANGED << args, env, faults, token, match_by_code_first, products, out, after, i,
                    node_id, current_cost, retrying, retry_op,
                    wire, ncalls, submitted, resolved, mutations >>

(***************************************************************************)
(* get_valid_access_token, as called by the run.                            *)
(***************************************************************************)
\* The proactive refresh is due: an expiry is stored and is at most
\* REFRESH_BUFFER_SECONDS away.
RefreshDue(row, t) ==
    /\ row.access_token_expires_at # Absent
    /\ Val(row.access_token_expires_at) - t <= REFRESH_BUFFER_SECONDS

\* get_valid_access_token without the except clause around the refresh.
GetValidAccessToken_RaisesOnFailure ==
    /\ pc = "get_token"
    /\ LET stored == get_connection_by_account_id(store)
       IN  IF stored = Absent
           THEN /\ Return([result EXCEPT !.error = "No connection for account; reconnect required"])
                /\ UNCHANGED << env, faults, token, wire, ncalls, submitted >>
           ELSE IF Val(stored).access_token = 0 \/ Val(stored).refresh_token = 0
           THEN /\ Return([result EXCEPT !.error = "Missing tokens; reconnect required"])
                /\ UNCHANGED << env, faults, token, wire, ncalls, submitted >>
           ELSE IF ~RefreshDue(Val(stored), now)
           THEN /\ token' = Val(stored).access_token
                /\ pc' = "probe"
                /\ UNCHANGED << env, faults, result, wire, ncalls, submitted >>
           ELSE \E r \in TokenAnswers(Val(stored).refresh_token) :
                  /\ TokenAnswered(r)
                  /\ Sent([NoWire EXCEPT !.op = "token", !.tok = Val(stored).refresh_token,
                                         !.resp = IF r.ok THEN "ok" ELSE "fail"])
                  /\ submitted' = Append(submitted, [rt |-> Val(stored).refresh_token,
                                                      ok |-> r.ok])
                  /\ IF ~r.ok
                     THEN /\ Return([result EXCEPT !.error = "Token refresh failed"])
                          /\ UNCHANGED << env, token >>
                     ELSE pc' = "probe" /\ result' = result
                  /\ IF ~r.ok
                     THEN TRUE
                     ELSE /\ accepted_refresh' = r.g
                          /\ issued' = r.g
                          /\ UNCHANGED << catalog, now >>
                          /\ IF r.expires_in.kind = "invalid"
                             THEN \* int(expires_in) raises: swallowed as well
                                  /\ token' = Val(stored).access_token
                                  /\ store' = store
                             ELSE /\ store' = update_tokens(store, r.g, r.g,
                                                            NewExpiresAt(now, r.expires_in))
                                  /\ token' = r.g
    /\ UNCHANGED << args, conn_row, match_by_code_first, products, out, after, i,
                    node_id, current_cost, retrying, retry_op, resolved, mutations >>

GetValidAccessToken ==
    /\ pc = "get_token"
    /\ LET stored == get_connection_by_account_id(store)
       IN  IF stored = Absent
           THEN /\ Return([result EXCEPT !.error = "No connection for account; reconnect required"])
                /\ UNCHANGED << env, faults, token, wire, ncalls, submitted >>
           ELSE IF Val(stored).access_token = 0 \/ Val(stored).refresh_token = 0
           THEN /\ Return([result EXCEPT !.error = "Missing tokens; reconnect required"])
                /\ UNCHANGED << env, faults, token, wire, ncalls, submitted >>
           ELSE IF ~RefreshDue(Val(stored), now)
           THEN /\ token' = Val(stored).access_token
                /\ pc' = "probe"
                /\ UNCHANGED << env, faults, result, wire, ncalls, submitted >>
           ELSE \E r \in TokenAnswers(Val(stored).refresh_token) :
                  /\ TokenAnswered(r)
                  /\ Sent([NoWire EXCEPT !.op = "token", !.tok = Val(stored).refresh_token,
                                         !.resp = IF r.ok THEN "ok" ELSE "fail"])
                  /\ submitted' = Append(submitted, [rt |-> Val(stored).refresh_token,
                                                      ok |-> r.ok])
                  /\ pc' = "probe"
                  /\ result' = result
                  /\ IF ~r.ok
                     THEN \* refresh failed: the exception is swallowed
                          /\ token' = Val(stored).access_token
                          /\ UNCHANGED env
                     ELSE /\ accepted_refresh' = r.g
                          /\ issued' = r.g
                          /\ UNCHANGED << catalog, now >>
                          /\ IF r.expires_in.kind = "invalid"
                             THEN \* int(expires_in) raises: swallowed as well
                                  /\ token' = Val(stored).access_token
                                  /\ store' = store
                             ELSE /\ store' = update_tokens(store, r.g, r.g,
                                                            NewExpiresAt(now, r.expires_in))
                                  /\ token' = r.g
    /\ UNCHANGED << args, conn_row, match_by_code_first, products, out, after, i,
                    node_id, current_cost, retrying, retry_op, resolved, mutations >>

(***************************************************************************)
(* _probe_code_available, and the run's handling of its 401.                *)
(***************************************************************************)
\* A variant of the probe that takes an answer with errors for a schema with
\* the code field.
Probe_ErrorsMeanCode ==
    /\ pc = "probe"
    /\ \E resp \in ProbeAnswers :
         /\ ProbeAnswered(resp)
         /\ Sent([NoWire EXCEPT !.op = "probe", !.tok = token, !.resp = resp, !.slept = RateLimitSleep(resp)])
         /\ CASE resp = "unauth" ->
                   /\ Return([result EXCEPT !.error = "Session expired; please reconnect to Jobber."])
                   /\ UNCHANGED match_by_code_first
              [] resp = "neterr" ->
                   /\ pc' = "raised"
                   /\ UNCHANGED << result, match_by_code_first >>
              [] OTHER ->
                   /\ match_by_code_first' = TRUE
                   /\ pc' = IF fuzzy_match THEN "fetch_all" ELSE "find"
                   /\ result' = result
    /\ UNCHANGED << args, env, conn_row, token, products, out, after, i,
                    node_id, current_cost, retrying, retry_op, submitted, resolved,
                    mutations >>

Probe ==
    /\ pc = "probe"
    /\ \E resp \in ProbeAnswers :
         /\ ProbeAnswered(resp)
         /\ Sent([NoWire EXCEPT !.op = "probe", !.tok = token, !.resp = resp, !.slept = RateLimitSleep(resp)])
         /\ CASE resp = "unauth" ->
                   /\ Return([result EXCEPT !.error = "Session expired; please reconnect to Jobber."])
                   /\ UNCHANGED match_by_code_first
              [] resp = "neterr" ->
                   /\ pc' = "raised"
                   /\ UNCHANGED << result, match_by_code_first >>
              [] OTHER ->
                   /\ match_by_code_first' = (resp = "ok")
                   /\ pc' = IF fuzzy_match THEN "fetch_all" ELSE "find"
                   /\ result' = result
    /\ UNCHANGED << args, env, conn_row, token, products, out, after, i,
                    node_id, current_cost, retrying, retry_op, submitted, resolved,
                    mutations >>


(***************************************************************************)
(* The per-row code that follows a row's resolution r.                      *)
(***************************************************************************)
SESSION_EXPIRED == "Session expired; please reconnect to Jobber."

\* A variant that records the identifier twice.
NotFoundRow_Twice(res) ==
    [res EXCEPT !.skus_not_found = Append(Append(@, rows[i].sku), rows[i].sku)]

NotFoundRow(res) == [res EXCEPT !.skus_not_found = Append(@, rows[i].sku)]

\* A variant that protects only a strictly higher current cost.
SyncPolicy_StrictProtection(r, res) ==
    IF r.id = None
    THEN result' = NotFoundRow(res) /\ NextRow(i)
    ELSE IF only_increase_cost /\ r.cost # Absent /\ rows[i].cost < Val(r.cost)
    THEN result' = [res EXCEPT !.skipped_protected = @ + 1] /\ NextRow(i)
    ELSE result' = res /\ pc' = "mutate" /\ i' = i

\* A variant that protects against a missing current cost as against 0.
SyncPolicy_AbsentCostIsZero(r, res) ==
    IF r.id = None
    THEN result' = NotFoundRow(res) /\ NextRow(i)
    ELSE IF only_increase_cost /\ rows[i].cost <= (IF r.cost # Absent THEN Val(r.cost) ELSE 0)
    THEN result' = [res EXCEPT !.skipped_protected = @ + 1] /\ NextRow(i)
    ELSE result' = res /\ pc' = "mutate" /\ i' = i

\* run_sync: not found, or price protection, or on to the mutation.
SyncPolicy(r, res) ==
    IF r.id = None
    THEN result' = NotFoundRow(res) /\ NextRow(i)
    ELSE IF only_increase_cost /\ r.cost # Absent /\ rows[i].cost <= Val(r.cost)
    THEN result' = [res EXCEPT !.skipped_protected = @ + 1] /\ NextRow(i)
    ELSE result' = res /\ pc' = "mutate" /\ i' = i

\* A variant that counts an entry without a current cost as an increase.
PreviewClassify_AbsentIsIncrease(r, res) ==
    /\ NextRow(i)
    /\ IF r.id = None
       THEN result' = NotFoundRow(res)
       ELSE IF r.cost = Absent \/ rows[i].cost > Val(r.cost)
       THEN result' = [res EXCEPT !.increases = @ + 1]
       ELSE IF rows[i].cost < Val(r.cost)
       THEN result' = [res EXCEPT !.decreases = @ + 1]
       ELSE result' = [res EXCEPT !.unchanged = @ + 1]

\* run_sync_preview: not found, or increase / decrease / unchanged against
\* the current cost, a missing current cost counting as 0.
PreviewClassify(r, res) ==
    LET effective_current == IF r.cost # Absent THEN Val(r.cost) ELSE 0
    IN  /\ NextRow(i)
        /\ IF r.id = None
           THEN result' = NotFoundRow(res)
           ELSE IF rows[i].cost > effective_current
           THEN result' = [res EXCEPT !.increases = @ + 1]
           ELSE IF rows[i].cost < effective_current
           THEN result' = [res EXCEPT !.decreases = @ + 1]
           ELSE result' = [res EXCEPT !.unchanged = @ + 1]

\* A variant in which the preview takes the sync's path after a resolution.
AfterResolve_PreviewAsSync(r, res) ==
    /\ node_id' = r.id
    /\ current_cost' = r.cost
    /\ resolved' = Append(resolved, [row |-> i, id |-> r.id, cost |-> r.cost, fuzzy |-> r.fuzzy])
    /\ retrying' = FALSE
    /\ SyncPolicy(r, res)

AfterResolve(r, res) ==
    /\ node_id' = r.id
    /\ current_cost' = r.cost
    /\ resolved' = Append(resolved, [row |-> i, id |-> r.id, cost |-> r.cost, fuzzy |-> r.fuzzy])
    /\ retrying' = FALSE
    /\ IF mode = "run_sync" THEN SyncPolicy(r, res) ELSE PreviewClassify(r, res)

\* A variant that, on the second 401, returns a result without the
\* identifiers recorded so far.
OnUnauthorized_DropsProgress(op) ==
    IF retrying
    THEN /\ Return([result EXCEPT !.skus_not_found = << >>, !.error = SESSION_EXPIRED])
         /\ UNCHANGED << retrying, retry_op >>
    ELSE /\ pc' = "refresh"
         /\ retry_op' = op
         /\ UNCHANGED << retrying, result >>

\* A variant that, on the second 401, also reports the row it stopped at as
\* not found.
OnUnauthorized_ReportsStoppedRow(op) ==
    IF retrying
    THEN /\ Return([NotFoundRow(result) EXCEPT !.error = SESSION_EXPIRED])
         /\ UNCHANGED << retrying, retry_op >>
    ELSE /\ pc' = "refresh"
         /\ retry_op' = op
         /\ UNCHANGED << retrying, result >>

\* A 401 on an operation: refresh and retry it, or, when this already is the
\* retry, stop the run.
OnUnauthorized(op) ==
    IF retrying
    THEN /\ Return([result EXCEPT !.error = SESSION_EXPIRED])
         /\ UNCHANGED << retrying, retry_op >>
    ELSE /\ pc' = "refresh"
         /\ retry_op' = op
         /\ UNCHANGED << retrying, result >>

(***************************************************************************)
(* _fetch_all_products, one page request at a time (fuzzy matching on).     *)
(***************************************************************************)
FetchAllPage ==
    /\ pc = "fetch_all"
    /\ \E resp \in CatalogAnswers :
         /\ CatalogAnswered(resp)
         /\ Sent([NoWire EXCEPT !.op = "page", !.tok = token, !.after = after, !.resp = resp, !.slept = RateLimitSleep(resp)])
         /\ CASE resp = "unauth" ->
                   /\ OnUnauthorized("fetch_all")
                   /\ UNCHANGED << products, out, after >>
              [] resp = "neterr" ->
                   /\ pc' = "raised"
                   /\ UNCHANGED << products, out, after, retrying, retry_op, result >>
              [] resp = "fail" ->
                   /\ products' = out
                   /\ out' = << >>
                   /\ after' = 0
                   /\ retrying' = FALSE
                   /\ pc' = "resolve"
                   /\ UNCHANGED << retry_op, result >>
              [] OTHER ->
                   LET got == out \o WithId(PageNodes(catalog, after, match_by_code_first))
                   IN  /\ IF HasNextPage(catalog, after)
                          THEN /\ out' = got
                               /\ after' = EndCursor(catalog, after)
                               /\ pc' = "fetch_all"
                               /\ UNCHANGED << products, retrying >>
                          ELSE /\ products' = got
                               /\ out' = << >>
                               /\ after' = 0
                               /\ retrying' = FALSE
                               /\ pc' = "resolve"
                       /\ UNCHANGED << retry_op, result >>
    /\ UNCHANGED << args, env, conn_row, token, match_by_code_first, i,
                    node_id, current_cost, submitted, resolved, mutations >>

(***************************************************************************)
(* The fuzzy loop's resolution of row i from the fetched list.              *)
(***************************************************************************)
\* A variant that counts every resolved row, however it was resolved.
CountFuzzy_EveryResolved(r, res) ==
    IF r.id # None THEN [res EXCEPT !.fuzzy_matched_count = @ + 1] ELSE res

CountFuzzy(r, res) == IF r.fuzzy THEN [res EXCEPT !.fuzzy_matched_count = @ + 1] ELSE res

ResolvedFromList(r) == AfterResolve(r, CountFuzzy(r, result))

\* A variant in which run_sync resolves from the list by exact match only.
ResolveRow_SyncExactOnly ==
    /\ pc = "resolve"
    /\ ResolvedFromList(_resolve_from_list(rows[i].sku, products, match_by_code_first,
                                           mode = "run_sync", threshold))
    /\ UNCHANGED << args, env, faults, conn_row, token, match_by_code_first, products,
                    out, after, retry_op, wire, ncalls, submitted, mutations >>

ResolveRow ==
    /\ pc = "resolve"
    /\ ResolvedFromList(_resolve_from_list(rows[i].sku, products, match_by_code_first,
                                           FALSE, threshold))
    /\ UNCHANGED << args, env, faults, conn_row, token, match_by_code_first, products,
                    out, after, retry_op, wire, ncalls, submitted, mutations >>

(***************************************************************************)
(* _find_id_by_sku for row i, one page request at a time (fuzzy off).       *)
(***************************************************************************)
\* A variant in which a row's scan goes on from the cursor the previous row's
\* scan stopped at.
FindPage_KeepsCursor ==
    /\ pc = "find"
    /\ \E resp \in CatalogAnswers :
         /\ CatalogAnswered(resp)
         /\ Sent([NoWire EXCEPT !.op = "page", !.tok = token, !.row = i, !.after = after,
                                !.resp = resp, !.slept = RateLimitSleep(resp)])
         /\ CASE resp = "unauth" ->
                   /\ OnUnauthorized("find")
                   /\ UNCHANGED << after, i, node_id, current_cost, resolved >>
              [] resp = "neterr" ->
                   /\ pc' = "raised"
                   /\ UNCHANGED << after, i, node_id, current_cost, resolved,
                                   retrying, retry_op, result >>
              [] resp = "fail" ->
                   /\ AfterResolve(NotFound, result)
                   /\ UNCHANGED << after, retry_op >>
              [] OTHER ->
                   LET hit == FindInNodes(rows[i].sku,
                                          PageNodes(catalog, after, match_by_code_first),
                                          match_by_code_first)
                   IN  IF hit.id = None /\ HasNextPage(catalog, after)
                       THEN /\ after' = EndCursor(catalog, after)
                            /\ pc' = "find"
                            /\ UNCHANGED << i, node_id, current_cost, resolved,
                                            retrying, retry_op, result >>
                       ELSE /\ AfterResolve(hit, result)
                            /\ UNCHANGED << after, retry_op >>
    /\ UNCHANGED << args, env, conn_row, token, match_by_code_first, products, out,
                    submitted, mutations >>

FindPage ==
    /\ pc = "find"
    /\ \E resp \in CatalogAnswers :
         /\ CatalogAnswered(resp)
         /\ Sent([NoWire EXCEPT !.op = "page", !.tok = token, !.row = i, !.after = after,
                                !.resp = resp, !.slept = RateLimitSleep(resp)])
         /\ CASE resp = "unauth" ->
                   /\ OnUnauthorized("find")
                   /\ UNCHANGED << after, i, node_id, current_cost, resolved >>
              [] resp = "neterr" ->
                   /\ pc' = "raised"
                   /\ UNCHANGED << after, i, node_id, current_cost, resolved,
                                   retrying, retry_op, result >>
              [] resp = "fail" ->
                   /\ AfterResolve(NotFound, result)
                   /\ after' = 0
                   /\ UNCHANGED retry_op
              [] OTHER ->
                   LET hit == FindInNodes(rows[i].sku,
                                          PageNodes(catalog, after, match_by_code_first),
                                          match_by_code_first)
                   IN  IF hit.id = None /\ HasNextPage(catalog, after)
                       THEN /\ after' = EndCursor(catalog, after)
                            /\ pc' = "find"
                            /\ UNCHANGED << i, node_id, current_cost, resolved,
                                            retrying, retry_op, result >>
                       ELSE /\ AfterResolve(hit, result)
                            /\ after' = 0
                            /\ UNCHANGED retry_op
    /\ UNCHANGED << args, env, conn_row, token, match_by_code_first, products, out,
                    submitted, mutations >>

(***************************************************************************)
(* _update_unit_cost / _update_cost_and_price for row i (run_sync only).    *)
(***************************************************************************)
Mutate ==
    /\ pc = "mutate"
    /\ LET cost == rows[i].cost
           unit_price == UnitPrice(cost, MarkupVal(markup_percent))
       IN  \E resp \in CatalogAnswers :
             /\ CatalogAnswered(resp)
             /\ Sent([NoWire EXCEPT
                        !.op = IF apply_markup THEN "cost_price" ELSE "cost",
                        !.tok = token, !.row = i, !.node_id = node_id, !.cost = cost,
                        \* _update_cost_and_price sends round(unit_price, 2)
                        !.price = IF apply_markup THEN Round2(unit_price * 100) ELSE 0,
                        !.resp = resp, !.slept = RateLimitSleep(resp)])
             /\ mutations' = Append(mutations,
                   [row |-> i, op |-> wire'.op, node_id |-> node_id, cost |-> wire'.cost,
                    price |-> wire'.price, remote_cost |-> RemoteCost(catalog, node_id),
                    resp |-> resp])
             /\ CASE resp = "unauth" ->
                       /\ OnUnauthorized("mutate")
                       /\ UNCHANGED << catalog, i >>
                  [] resp = "neterr" ->
                       /\ pc' = "raised"
                       /\ UNCHANGED << catalog, i, retrying, retry_op, result >>
                  [] resp = "fail" ->
                       /\ result' = NotFoundRow(result)
                       /\ NextRow(i)
                       /\ retrying' = FALSE
                       /\ UNCHANGED << catalog, retry_op >>
                  [] OTHER ->
                       /\ result' = [result EXCEPT !.updated = @ + 1]
                       /\ catalog' = ApplyCost(catalog, node_id, cost)
                       /\ NextRow(i)
                       /\ retrying' = FALSE
                       /\ UNCHANGED retry_op
    /\ UNCHANGED << args, store, accepted_refresh, issued, now, conn_row, token,
                    match_by_code_first, products, out, after, node_id, current_cost,
                    submitted, resolved >>

(***************************************************************************)
(* refresh_and_retry: the token request, the persistence, and the return    *)
(* to the operation that got the 401.                                       *)
(***************************************************************************)
\* refresh_and_retry persisting the new access token beside the old refresh token.
RefreshAndRetry_AccessOnly ==
    /\ pc = "refresh"
    /\ \E r \in TokenAnswers(Val(conn_row).refresh_token) :
         /\ TokenAnswered(r)
         /\ Sent([NoWire EXCEPT !.op = "token", !.tok = Val(conn_row).refresh_token,
                                !.resp = IF r.ok THEN "ok" ELSE "fail"])
         /\ submitted' = Append(submitted, [rt |-> Val(conn_row).refresh_token, ok |-> r.ok])
         /\ IF ~r.ok
            THEN /\ Return([result EXCEPT
                     !.error = "Session expired; please reconnect to Jobber. (refresh failed)"])
                 /\ UNCHANGED << env, conn_row, token, out, after, retrying >>
            ELSE /\ accepted_refresh' = r.g
                 /\ issued' = r.g
                 /\ UNCHANGED << catalog, now, result >>
                 /\ IF r.expires_in.kind = "invalid"
                    THEN \* int(expires_in) raises out of the run
                         /\ pc' = "raised"
                         /\ UNCHANGED << store, conn_row, token, out, after, retrying >>
                    ELSE /\ store' = update_tokens(store, r.g, Val(store).refresh_token,
                                                        NewExpiresAt(now, r.expires_in))
                         /\ conn_row' = Some([Val(conn_row) EXCEPT !.access_token = r.g,
                                                                   !.refresh_token = r.g])
                         /\ token' = r.g
                         \* the retried operation starts over
                         /\ out' = << >>
                         /\ after' = 0
                         /\ retrying' = TRUE
                         /\ pc' = retry_op
    /\ UNCHANGED << args, match_by_code_first, products, i, node_id, current_cost,
                    retry_op, resolved, mutations >>

\* refresh_and_retry whose retried scan keeps the entries read before the 401.
RefreshAndRetry_KeepsPartialScan ==
    /\ pc = "refresh"
    /\ \E r \in TokenAnswers(Val(conn_row).refresh_token) :
         /\ TokenAnswered(r)
         /\ Sent([NoWire EXCEPT !.op = "token", !.tok = Val(conn_row).refresh_token,
                                !.resp = IF r.ok THEN "ok" ELSE "fail"])
         /\ submitted' = Append(submitted, [rt |-> Val(conn_row).refresh_token, ok |-> r.ok])
         /\ IF ~r.ok
            THEN /\ Return([result EXCEPT
                     !.error = "Session expired; please reconnect to Jobber. (refresh failed)"])
                 /\ UNCHANGED << env, conn_row, token, out, after, retrying >>
            ELSE /\ accepted_refresh' = r.g
                 /\ issued' = r.g
                 /\ UNCHANGED << catalog, now, result >>
                 /\ IF r.expires_in.kind = "invalid"
                    THEN \* int(expires_in) raises out of the run
                         /\ pc' = "raised"
                         /\ UNCHANGED << store, conn_row, token, out, after, retrying >>
                    ELSE /\ store' = update_tokens(store, r.g, r.g, NewExpiresAt(now, r.expires_in))
                         /\ conn_row' = Some([Val(conn_row) EXCEPT !.access_token = r.g,
                                                                   !.refresh_token = r.g])
                         /\ token' = r.g
                         \* the retried scan starts over on top of the pages read
                         /\ out' = out
                         /\ after' = 0
                         /\ retrying' = TRUE
                         /\ pc' = retry_op
    /\ UNCHANGED << args, match_by_code_first, products, i, node_id, current_cost,
                    retry_op, resolved, mutations >>

\* A variant that stores the new pair but goes on sending the headers built
\* from the old access token.
RefreshAndRetry_KeepsHeaders ==
    /\ pc = "refresh"
    /\ \E r \in TokenAnswers(Val(conn_row).refresh_token) :
         /\ TokenAnswered(r)
         /\ Sent([NoWire EXCEPT !.op = "token", !.tok = Val(conn_row).refresh_token,
                                !.resp = IF r.ok THEN "ok" ELSE "fail"])
         /\ submitted' = Append(submitted, [rt |-> Val(conn_row).refresh_token, ok |-> r.ok])
         /\ IF ~r.ok
            THEN /\ Return([result EXCEPT
                     !.error = "Session expired; please reconnect to Jobber. (refresh failed)"])
                 /\ UNCHANGED << env, conn_row, token, out, after, retrying >>
            ELSE /\ accepted_refresh' = r.g
                 /\ issued' = r.g
                 /\ UNCHANGED << catalog, now, result >>
                 /\ IF r.expires_in.kind = "invalid"
                    THEN \* int(expires_in) raises out of the run
                         /\ pc' = "raised"
                         /\ UNCHANGED << store, conn_row, token, out, after, retrying >>
                    ELSE /\ store' = update_tokens(store, r.g, r.g, NewExpiresAt(now, r.expires_in))
                         /\ conn_row' = Some([Val(conn_row) EXCEPT !.access_token = r.g,
                                                                   !.refresh_token = r.g])
                         /\ token' = token
                         \* the retried operation starts over
                         /\ out' = << >>
                         /\ after' = 0
                         /\ retrying' = TRUE
                         /\ pc' = retry_op
    /\ UNCHANGED << args, match_by_code_first, products, i, node_id, current_cost,
                    retry_op, resolved, mutations >>

RefreshAndRetry ==
    /\ pc = "refresh"
    /\ \E r \in TokenAnswers(Val(conn_row).refresh_token) :
         /\ TokenAnswered(r)
         /\ Sent([NoWire EXCEPT !.op = "token", !.tok = Val(conn_row).refresh_token,
                                !.resp = IF r.ok THEN "ok" ELSE "fail"])
         /\ submitted' = Append(submitted, [rt |-> Val(conn_row).refresh_token, ok |-> r.ok])
         /\ IF ~r.ok
            THEN /\ Return([result EXCEPT
                     !.error = "Session expired; please reconnect to Jobber. (refresh failed)"])
                 /\ UNCHANGED << env, conn_row, token, out, after, retrying >>
            ELSE /\ accepted_refresh' = r.g
                 /\ issued' = r.g
                 /\ UNCHANGED << catalog, now, result >>
                 /\ IF r.expires_in.kind = "invalid"
                    THEN \* int(expires_in) raises out of the run
                         /\ pc' = "raised"
                         /\ UNCHANGED << store, conn_row, token, out, after, retrying >>
                    ELSE /\ store' = update_tokens(store, r.g, r.g, NewExpiresAt(now, r.expires_in))
                         /\ conn_row' = Some([Val(conn_row) EXCEPT !.access_token = r.g,
                                                                   !.refresh_token = r.g])
                         /\ token' = r.g
                         \* the retried operation starts over
                         /\ out' = << >>
                         /\ after' = 0
                         /\ retrying' = TRUE
                         /\ pc' = retry_op
    /\ UNCHANGED << args, match_by_code_first, products, i, node_id, current_cost,
                    retry_op, resolved, mutations >>

Next ==
    \/ Connect
    \/ GetValidAccessToken
    \/ Probe
    \/ FetchAllPage
    \/ ResolveRow
    \/ FindPage
    \/ Mutate
    \/ RefreshAndRetry

Spec == Init /\ [][Next]_vars

(***************************************************************************)
(* What the properties observe.                                             *)
(***************************************************************************)
MutationOps == { "cost", "cost_price" }

CatalogOps == { "page" } \cup MutationOps

Range(s) == { s[n] : n \in DOMAIN s }

Abs(x) == IF x < 0 THEN 0 - x ELSE x

\* This step sends a remote request.
Called == ncalls' = ncalls + 1

\* The operation of the run a catalog request belongs to.
OpOf(w) ==
    IF w.op \in MutationOps THEN "mutate" ELSE IF w.row = 0 THEN "fetch_all" ELSE "find"

\* Rows by what the run observed for them.
OkRows == { m.row : m \in { x \in Range(mutations) : x.resp = "ok" } }

FailedRows == { m.row : m \in { x \in Range(mutations) : x.resp = "fail" } }

UnresolvedRows == { e.row : e \in { x \in Range(resolved) : x.id = None } }

FuzzyRows == { e.row : e \in { x \in Range(resolved) : x.fuzzy } }

\* Rows whose resolved entry has a known current cost not below the feed cost,
\* in a run with only_increase_cost.
ProtectedRows ==
    IF only_increase_cost
    THEN { e.row : e \in { x \in Range(resolved) :
                             x.id # None /\ x.cost # Absent /\ Val(x.cost) >= rows[x.row].cost } }
    ELSE { }

\* The identifiers of the rows before k that were not found or whose mutation
\* failed, in feed order.
NotFoundBefore(k) ==
    LET idx == SelectSeq([n \in 1 .. (k - 1) |-> n],
                         LAMBDA n : n \in UnresolvedRows \cup FailedRows)
    IN  [j \in 1 .. Len(idx) |-> rows[idx[j]].sku]

\* The run stopped with an error while handling row i: a second 401 on the
\* row's query or mutation, or a failed reactive refresh for it.
RowTerminal == result.error # None /\ retry_op \in { "find", "mutate" }

(***************************************************************************)
(* C1                                                                       *)
(***************************************************************************)
\* A first 401 on a scan, a row's query or a row's mutation leads to the
\* token request and to nothing else.
C1_First401 ==
    (Called /\ wire'.op \in CatalogOps /\ wire'.resp = "unauth" /\ ~retrying)
        => /\ pc' = "refresh"
           /\ retry_op' = OpOf(wire')
           /\ UNCHANGED << result, store, i >>

\* The token endpoint is called once; when it answers with a new pair, the
\* pair is persisted and the run is back at the operation that got the 401.
C1_Refresh ==
    pc = "refresh"
        => /\ Called /\ wire'.op = "token" /\ wire'.tok = Val(conn_row).refresh_token
           /\ wire'.resp = "ok"
                => /\ store' # Absent
                   /\ Val(store').access_token = issued'
                   /\ Val(store').refresh_token = issued'
                   /\ token' = issued'
                   /\ pc' = retry_op /\ i' = i /\ node_id' = node_id
                   /\ retrying'

\* A 401 on the re-issued operation ends the run with the error.
C1_Second401 ==
    (Called /\ wire'.op \in CatalogOps /\ wire'.resp = "unauth" /\ retrying)
        => pc' = "done" /\ result'.error = SESSION_EXPIRED

\* C1: in run_sync and run_sync_preview, when a row's catalog query, its
\* mutation, or the fuzzy-mode full-catalog scan gets an unauthorized
\* response, the run calls the token endpoint once, persists the new tokens
\* and re-issues that same operation exactly once; when the re-issued
\* operation is unauthorized again the run records the 'Session expired'
\* error and sends no further remote request.
C1_RefreshAndRetryOnce ==
    [][ /\ C1_First401
        /\ C1_Refresh
        /\ C1_Second401
        /\ pc = "done" => ~Called ]_vars

(***************************************************************************)
(* C2                                                                       *)
(***************************************************************************)
\* C2: within one run no refresh token value is submitted to the token
\* endpoint more than once: a refresh token that the token endpoint has
\* exchanged for a new pair (as in a proactive refresh at the start of the
\* run) is not submitted again by a later refresh of that run.
C2_NoRefreshTokenReuse ==
    \A j, k \in DOMAIN submitted :
        (j < k /\ submitted[j].ok) => submitted[k].rt # submitted[j].rt

(***************************************************************************)
(* C3                                                                       *)
(***************************************************************************)
\* C3: in run_sync with only_increase_cost, a row whose resolved entry has a
\* known current cost greater than or equal to the feed cost gets no mutation
\* request, adds exactly one to skipped_protected, and adds nothing to
\* updated (updated counts exactly the rows whose mutation succeeded).
C3_PriceProtection ==
    (mode = "run_sync" /\ only_increase_cost)
        => /\ \A m \in Range(mutations) : m.row \notin ProtectedRows
           /\ result.skipped_protected = Cardinality(ProtectedRows)
           /\ result.updated = Cardinality(OkRows)
           /\ OkRows \cap ProtectedRows = { }

\* A finished run that skipped a protected row and updated another one.
C3_Witness ==
    /\ mode = "run_sync" /\ only_increase_cost
    /\ pc = "done" /\ result.error = None
    /\ result.skipped_protected = 1 /\ result.updated = 1
    /\ ProtectedRows # { }

(***************************************************************************)
(* C4                                                                       *)
(***************************************************************************)
\* C4: in run_sync with only_increase_cost, every cost mutation writes a cost
\* strictly greater than the cost the remote service holds for the target
\* entry at the moment of the mutation, also when two feed rows resolve to
\* the same entry in a fuzzy-mode run.
C4_MutationsOnlyIncrease ==
    (mode = "run_sync" /\ only_increase_cost)
        => \A m \in Range(mutations) :
             m.remote_cost # Absent => m.cost > Val(m.remote_cost)

(***************************************************************************)
(* C5                                                                       *)
(***************************************************************************)
\* C5: when the capability probe gets an unauthorized response, the run does
\* the reactive refresh and retries the probe once; the run ends with an
\* error only when the retried probe is unauthorized again or the refresh
\* fails.
C5_ProbeRefreshAndRetry ==
    [][ (Called /\ wire'.op = "probe" /\ wire'.resp = "unauth" /\ ~retrying)
            => (pc' = "refresh" /\ result'.error = None) ]_vars

(***************************************************************************)
(* C6                                                                       *)
(***************************************************************************)
\* C6: in run_sync a remote call made for a row that fails for a reason other
\* than an unauthorized response (non-2xx status, malformed JSON, GraphQL
\* errors, network timeout or connection failure) appends the row's
\* identifier to skus_not_found, lets no exception leave the run, leaves
\* the error unset, and the run goes on with the following row.
C6_RowFailureIsNotFound ==
    [][ ( /\ mode = "run_sync"
          /\ Called /\ wire'.op \in CatalogOps /\ wire'.row = i
          /\ wire'.resp \in { "fail", "neterr" } )
            => /\ pc' # "raised"
               /\ result' = [result EXCEPT !.skus_not_found = Append(@, rows[i].sku)]
               /\ result'.error = None
               /\ IF i < Len(rows) THEN pc' = RowPc /\ i' = i + 1 ELSE pc' = "done" ]_vars

(***************************************************************************)
(* C7                                                                       *)
(***************************************************************************)
\* C7, as stated: when run_sync becomes terminal while handling row k
\* (second unauthorized response, or failed reactive refresh), no remote call
\* is issued for a row after k, and the result carries exactly the updated /
\* skipped_protected / skus_not_found / fuzzy_matched_count values of the
\* rows before k, with a non-null error.
C7_CountsOfRowsBefore ==
    (mode = "run_sync" /\ RowTerminal)
        => /\ pc = "done"
           /\ \A m \in Range(mutations) : m.row <= i
           /\ \A e \in Range(resolved) : e.row <= i
           /\ wire.row <= i
           /\ result.updated = Cardinality(OkRows \cap (1 .. (i - 1)))
           /\ result.skipped_protected = Cardinality(ProtectedRows \cap (1 .. (i - 1)))
           /\ result.skus_not_found = NotFoundBefore(i)
           /\ result.fuzzy_matched_count = Cardinality(FuzzyRows \cap (1 .. (i - 1)))

\* C7, amended: when run_sync becomes terminal while handling row k, no
\* remote call is issued for a row after k, and the result carries a
\* non-null error, exactly the updated / skipped_protected / skus_not_found
\* values of the rows before k, and a fuzzy_matched_count that counts the
\* rows up to and including k that the fuzzy pass resolved.
C7_CountsAtTerminal ==
    (mode = "run_sync" /\ RowTerminal)
        => /\ pc = "done"
           /\ \A m \in Range(mutations) : m.row <= i
           /\ \A e \in Range(resolved) : e.row <= i
           /\ wire.row <= i
           /\ result.updated = Cardinality(OkRows \cap (1 .. (i - 1)))
           /\ result.skipped_protected = Cardinality(ProtectedRows \cap (1 .. (i - 1)))
           /\ result.skus_not_found = NotFoundBefore(i)
           /\ result.fuzzy_matched_count = Cardinality(FuzzyRows \cap (1 .. i))

\* A fuzzy-mode run that updated row 1 and stopped at row 2 on the second
\* 401 of its mutation, row 2 having been resolved by the fuzzy pass.
C7_Witness ==
    /\ mode = "run_sync" /\ RowTerminal /\ pc = "done"
    /\ result.error = SESSION_EXPIRED
    /\ i = 2 /\ fuzzy_match
    /\ 2 \in FuzzyRows
    /\ result.updated = 1

(***************************************************************************)
(* C8                                                                       *)
(***************************************************************************)
\* The store holds no credential for the account, or one without a token.
NoCredential ==
    \/ store = Absent
    \/ Val(store).access_token = 0
    \/ Val(store).refresh_token = 0

\* C8: when the store holds no credential for the account, or
\* get_valid_access_token reports missing tokens, run_sync and
\* run_sync_preview return a result with a non-null error, every counter zero
\* and skus_not_found empty, raise nothing, and send no remote request at
\* all (no probe, no token request, no query, no mutation).
C8_NoCredentialNoCall ==
    NoCredential
        => /\ ncalls = 0 /\ wire = NoWire /\ submitted = << >>
           /\ pc \in { "start", "get_token", "done" }
           /\ pc = "done"
                => /\ result.error # None
                   /\ [result EXCEPT !.error = None]
                        = (IF mode = "run_sync" THEN SyncResult0(MarkupVal(markup_percent))
                           ELSE PreviewResult0)

\* A run that returned because the stored credential has no access token.
C8_Witness ==
    /\ pc = "done"
    /\ store # Absent
    /\ Val(store).access_token = 0
    /\ result.error = "Missing tokens; reconnect required"
    /\ ncalls = 0

(***************************************************************************)
(* C9                                                                       *)
(***************************************************************************)
\* C9: run_sync_preview never sends a mutation: only the capability probe,
\* catalog reads and token refreshes go out, and the remote catalog is as it
\* was.
C9_PreviewNeverMutates ==
    mode = "run_sync_preview"
        => /\ mutations = << >>
           /\ wire.op \in { "none", "token", "probe", "page" }
           /\ pc # "mutate"
           /\ catalog = InitialCatalog

\* A preview that went through a reactive refresh and classified two rows.
C9_Witness ==
    /\ mode = "run_sync_preview"
    /\ pc = "done" /\ result.error = None
    /\ Len(resolved) = 2
    /\ result.increases = 1 /\ result.decreases = 1
    /\ \E k \in DOMAIN submitted : submitted[k].ok

(***************************************************************************)
(* C10                                                                      *)
(***************************************************************************)
\* C10: for every row that reaches the mutation step of run_sync: with
\* markup_percent > 0 only the combined cost-and-price mutation is sent, with
\* cost the feed cost c and price c * (1 + p / 100) rounded to the cent; with
\* markup_percent 0, absent or negative only the cost-only mutation is sent,
\* with cost c.
C10_MutationByMarkup ==
    mode = "run_sync"
        => \A m \in Range(mutations) :
             /\ m.cost = rows[m.row].cost
             /\ IF markup_percent # Absent /\ Val(markup_percent) > 0
                THEN /\ m.op = "cost_price"
                     /\ 2 * Abs(100 * m.price - m.cost * (100 + Val(markup_percent))) <= 100
                ELSE m.op = "cost"

\* A finished run with 25 % markup that wrote cost 7.01 with price 8.76.
C10_Witness ==
    /\ mode = "run_sync" /\ pc = "done"
    /\ markup_percent = Some(25)
    /\ \E m \in Range(mutations) :
         m.resp = "ok" /\ m.op = "cost_price" /\ m.cost = 701 /\ m.price = 876

(***************************************************************************)
(* _resolve_from_list called on its own, on every product list of up to    *)
(* MaxProducts nodes drawn from ProductPool, in every order.                *)
(***************************************************************************)
ProductPool ==
    { [id |-> "id-1", name |-> <<"a", "b">>, code |-> << >>, internalUnitCost |-> Some(500)],
      [id |-> "id-2", name |-> <<"b", "c">>, code |-> << >>, internalUnitCost |-> Absent],
      [id |-> "id-3", name |-> <<"k">>, code |-> <<"a", "b">>, internalUnitCost |-> Some(900)],
      [id |-> "id-4", name |-> <<"a", " ", "b">>, code |-> << >>, internalUnitCost |-> Some(0)],
      [id |-> "id-5", name |-> <<"A", "b">>, code |-> << >>, internalUnitCost |-> Some(700)] }

SkuChoices == { <<"a", "b", "c">>, <<"a", "b">>, <<"b", " ", "a">> }

\* fuzzy_threshold as a fraction
ThresholdChoices == { <<80, 100>>, <<90, 100>>, <<0, 100>> }

ResolveCalls ==
    { [fn |-> "_resolve_from_list", sku |-> k, products |-> p, match_by_code_first |-> m,
       exact_only |-> e, fuzzy_threshold |-> t] :
        k \in SkuChoices, p \in SeqsUpTo(ProductPool, MaxProducts), m \in BOOLEAN,
        e \in BOOLEAN, t \in ThresholdChoices }

\* The arguments of a run while a helper function is called on its own.
NoArgs ==
    /\ rows = << >>
    /\ only_increase_cost = FALSE
    /\ fuzzy_match = FALSE
    /\ fuzzy_threshold = 0
    /\ markup_percent = Absent

\* No store, no remote service.
NoEnv ==
    /\ store = Absent
    /\ accepted_refresh = 0
    /\ issued = 0
    /\ catalog = << >>
    /\ now = 0
    /\ faults = 0

\* The locals and the observations of a run that has not started.
NoLocals ==
    /\ conn_row = Absent
    /\ token = 0
    /\ match_by_code_first = FALSE
    /\ products = << >>
    /\ out = << >>
    /\ after = 0
    /\ i = 1
    /\ node_id = None
    /\ current_cost = Absent
    /\ retrying = FALSE
    /\ retry_op = "none"
    /\ result = PreviewResult0
    /\ wire = NoWire
    /\ ncalls = 0
    /\ submitted = << >>
    /\ resolved = << >>
    /\ mutations = << >>

\* The variables of a run while a helper function is called on its own.
NoRun == NoArgs /\ NoEnv /\ NoLocals

InitResolve ==
    /\ mode = "_resolve_from_list"
    /\ call \in ResolveCalls
    /\ pc = "call"
    /\ NoRun

\* The call returns; its result is recorded as the resolution of row 1.
ResolveFromList ==
    /\ mode = "_resolve_from_list"
    /\ pc = "call"
    /\ LET r == _resolve_from_list(call.sku, call.products, call.match_by_code_first,
                                   call.exact_only, call.fuzzy_threshold)
       IN  resolved' = << [row |-> 1, id |-> r.id, cost |-> r.cost, fuzzy |-> r.fuzzy] >>
    /\ pc' = "returned"
    /\ UNCHANGED << args, env, faults, locals, result, wire, ncalls, submitted, mutations >>

SpecResolve == InitResolve /\ [][ResolveFromList]_vars

(***************************************************************************)
(* C11                                                                      *)
(***************************************************************************)
\* The nodes of the call's list, by position.
CallNodes == DOMAIN call.products

\* Node n of the call's list matches the identifier exactly.
ExactAt(n) ==
    \/ _normalize(Strip(call.products[n].name)) = _normalize(call.sku)
    \/ /\ call.match_by_code_first
       /\ _normalize(Strip(call.products[n].code)) = _normalize(call.sku)

ScoreAt(n) == NodeScore(call.sku, call.products[n], call.match_by_code_first)

\* The nodes with the highest score of the list.
TopNodes == { n \in CallNodes : \A m \in CallNodes : ScoreGeq(ScoreAt(n), ScoreAt(m)) }

\* No node matches exactly, and two or more nodes share the highest score,
\* which is at or above the threshold.
FuzzyTie ==
    /\ \A n \in CallNodes : ~ExactAt(n)
    /\ Cardinality(TopNodes) >= 2
    /\ \A n \in TopNodes : ScoreGeq(ScoreAt(n), call.fuzzy_threshold)

\* C11: in _resolve_from_list, when no entry matches exactly and two or more
\* entries share the highest similarity score to the identifier, that score
\* being at or above the threshold, the result is not-found (no entry id,
\* fuzzy flag false, no cost), in whatever order the entries are listed.
C11_FuzzyTieIsNotFound ==
    (mode = "_resolve_from_list" /\ pc = "returned" /\ FuzzyTie)
        => /\ resolved[1].id = None
           /\ ~resolved[1].fuzzy
           /\ resolved[1].cost = Absent

\* A returned call with threshold 0.8 on a list in which the second and the
\* third node tie at the top, above a lower-scored first node.
C11_Witness ==
    /\ mode = "_resolve_from_list" /\ pc = "returned"
    /\ FuzzyTie
    /\ ~call.exact_only
    /\ call.fuzzy_threshold = <<80, 100>>
    /\ Len(call.products) = 3
    /\ TopNodes = { 2, 3 }
    /\ call.products[2].id # call.products[3].id
    /\ resolved[1].id = None

(***************************************************************************)
(* C12                                                                      *)
(***************************************************************************)
\* The identifiers of the rows in S, in feed order.
SkusOfRows(S) ==
    LET idx == SelectSeq([n \in 1 .. Len(rows) |-> n], LAMBDA n : n \in S)
    IN  [j \in 1 .. Len(idx) |-> rows[idx[j]].sku]

\* The rows whose resolution returned an entry id.
ResolvedRows == { e.row : e \in { x \in Range(resolved) : x.id # None } }

\* Every processed row has one resolution.
OneResolutionPerRow ==
    \A j, k \in DOMAIN resolved : j # k => resolved[j].row # resolved[k].row

\* C12, as stated: at the end of run_sync, for every processed row exactly
\* one of the two holds: resolution returned an entry id for the row, or the
\* row's identifier is recorded in skus_not_found; the identifier of a row
\* that resolved to an entry is never recorded in skus_not_found.
C12_ResolvedXorNotFound ==
    (mode = "run_sync" /\ pc = "done")
        => /\ OneResolutionPerRow
           /\ ResolvedRows \cap UnresolvedRows = { }
           /\ result.skus_not_found = SkusOfRows(UnresolvedRows)

\* C12, amended: at the end of run_sync every processed row has exactly one
\* resolution, with an entry id or without; skus_not_found holds, in feed
\* order and once each, the identifiers of the rows resolved without an
\* entry id and of the rows that resolved to an entry but whose mutation
\* failed, and no other identifier.
C12_NotFoundOrMutationFailed ==
    (mode = "run_sync" /\ pc = "done")
        => /\ OneResolutionPerRow
           /\ ResolvedRows \cap UnresolvedRows = { }
           /\ FailedRows \subseteq ResolvedRows
           /\ result.skus_not_found = SkusOfRows(UnresolvedRows \cup FailedRows)

\* A finished run whose first row resolved to no entry and whose second row
\* resolved to an entry and had its mutation fail.
C12_Witness ==
    /\ mode = "run_sync" /\ pc = "done" /\ result.error = None
    /\ UnresolvedRows = { 1 }
    /\ ResolvedRows = { 2 }
    /\ FailedRows = { 2 }
    /\ Len(result.skus_not_found) = 2

(***************************************************************************)
(* get_valid_access_token called on its own, on stored credentials with    *)
(* expiries around the refresh buffer.                                      *)
(***************************************************************************)
NowChoices == { 0, 1000 }

\* Stored expiries: with the clock at 1000 they are in the past, now, one
\* second inside the buffer, exactly the buffer away, one second beyond it.
ExpiryChoices ==
    { Absent } \cup { Some(1000 + REFRESH_BUFFER_SECONDS + d) : d \in { -1000, -120, -1, 0, 1 } }

TokenStoreChoices ==
    { Absent }
    \cup { Some([jobber_account_name |-> "acct", access_token |-> t[1], refresh_token |-> t[2],
                 access_token_expires_at |-> e]) :
             t \in { <<1, 1>>, <<0, 1>>, <<1, 0>> }, e \in ExpiryChoices }

\* The token endpoint accepts the stored refresh token 1, or has already
\* exchanged it for pair 2.
InitToken ==
    /\ mode = "get_valid_access_token"
    /\ call = [fn |-> "get_valid_access_token"]
    /\ pc = "get_token"
    /\ NoArgs
    /\ store \in TokenStoreChoices
    /\ accepted_refresh \in { 1, 2 }
    /\ issued = accepted_refresh
    /\ catalog = << >>
    /\ now \in NowChoices
    /\ faults = 0
    /\ NoLocals

\* The call ends at pc = "probe" with the returned token in `token`, or at
\* pc = "done" with the ValueError's message in result.error.
SpecToken == InitToken /\ [][GetValidAccessToken]_vars

(***************************************************************************)
(* C13                                                                      *)
(***************************************************************************)
\* The stored row has both tokens.
HasTokens == store # Absent /\ Val(store).access_token # 0 /\ Val(store).refresh_token # 0

\* The stored expiry, read independently of the code's test: none stored, or
\* more than 120 seconds after the clock.
ExpiryFar ==
    \/ Val(store).access_token_expires_at = Absent
    \/ Val(Val(store).access_token_expires_at) > now + 120

\* Without a stored expiry, or with one more than 120 s ahead: the stored
\* access token is returned and no request is sent.
C13_Fresh ==
    (pc = "get_token" /\ HasTokens /\ ExpiryFar)
        => /\ pc' = "probe"
           /\ token' = Val(store).access_token
           /\ ~Called
           /\ UNCHANGED << store, submitted >>

\* With a stored expiry in the past or at most 120 s ahead: the token
\* endpoint is called with the stored refresh token, and the pair it returns
\* is persisted with the new expiry and its access token returned.
C13_Due ==
    (pc = "get_token" /\ HasTokens /\ ~ExpiryFar)
        => /\ Called /\ wire'.op = "token" /\ wire'.tok = Val(store).refresh_token
           /\ wire'.resp = "ok"
                => /\ pc' = "probe"
                   /\ token' = issued'
                   /\ HasTokens'
                   /\ Val(store').access_token = issued'
                   /\ Val(store').refresh_token = issued'
                   /\ Val(store').access_token_expires_at
                        \in { Absent, Some(now + TokenLifetime) }
                   /\ Val(store').jobber_account_name = Val(store).jobber_account_name

\* C13: get_valid_access_token returns the stored access token without
\* calling the token endpoint when no expiry is stored or the expiry is more
\* than 120 seconds in the future; when the expiry is in the past or at most
\* 120 seconds away (exactly 120 included) it calls refresh with the stored
\* refresh token, persists the returned access/refresh pair and new expiry,
\* and returns the new access token.
C13_StoredOrRefreshed == [][ C13_Fresh /\ C13_Due ]_vars

(***************************************************************************)
(* C14                                                                      *)
(***************************************************************************)
\* A step of get_valid_access_token whose proactive refresh was answered
\* with an error or with a body missing a token.
ProactiveRefreshFailed ==
    /\ pc = "get_token"
    /\ Called
    /\ wire'.op = "token"
    /\ wire'.resp = "fail"

IssuedTogether ==
    (store # Absent /\ Val(store).access_token # 0 /\ Val(store).refresh_token # 0)
        => /\ Val(store).access_token = Val(store).refresh_token
           /\ Val(store).access_token <= issued

\* A step that changes the store is one update that follows a token
\* response: it writes the pair of that response and the expiry computed from
\* it, and keeps the account name.
StoreChangeIsOneUpdate ==
    store' # store
        => /\ store # Absent /\ store' # Absent
           /\ wire'.op = "token" /\ wire'.resp = "ok"
           /\ issued' = issued + 1
           /\ Val(store').access_token = issued'
           /\ Val(store').refresh_token = issued'
           /\ Val(store').access_token_expires_at \in { Absent, Some(now + TokenLifetime) }
           /\ Val(store').jobber_account_name = Val(store).jobber_account_name

\* C15: in every reachable state the stored credential holds an access token
\* and a refresh token that were issued together; every refresh persists
\* access token, refresh token and expiry in one store update that leaves the
\* account name unchanged, and no state pairs a new access token with an old
\* refresh token or the reverse.
C15_PairStoredTogether == []IssuedTogether /\ [][StoreChangeIsOneUpdate]_vars

\* A run has persisted a second rotation: the pair found at the start was
\* replaced twice.
C15_Witness ==
    /\ mode = "run_sync"
    /\ store # Absent
    /\ Val(store).access_token = 3
    /\ Val(store).refresh_token = 3
    /\ Val(store).jobber_account_name = "acct"
    /\ Len(submitted) = 2

(***************************************************************************)
(* C16                                                                      *)
(***************************************************************************)
\* The resolutions to an entry whose current cost is not known.
UnknownCostRows == { e.row : e \in { x \in Range(resolved) : x.id # None /\ x.cost = Absent } }

\* The rows a mutation request was sent for.
MutatedRows == { m.row : m \in Range(mutations) }

\* C16: in run_sync with only_increase_cost, a row whose resolved entry has
\* no known current cost is never a protected skip: the mutation is issued
\* for every feed cost, 0 included.
C16_UnknownCostIsMutated ==
    (mode = "run_sync" /\ only_increase_cost)
        => /\ \A n \in UnknownCostRows :
                \/ pc = "mutate" /\ i = n
                \/ /\ n \in MutatedRows
                   /\ \A m \in Range(mutations) : m.row = n => m.cost = rows[n].cost
           /\ result.skipped_protected
                = Cardinality({ e.row : e \in { x \in Range(resolved) : x.id # None } }
                                \ (MutatedRows \cup IF pc = "mutate" THEN { i } ELSE { }))
           /\ result.skipped_protected + Cardinality(UnknownCostRows) <= Len(resolved)

\* A finished run whose feed row of cost 0 resolved to an entry without a
\* cost and was written.
C16_Witness ==
    /\ mode = "run_sync" /\ only_increase_cost
    /\ pc = "done" /\ result.error = None
    /\ \E n \in UnknownCostRows :
         /\ rows[n].cost = 0
         /\ \E m \in Range(mutations) : m.row = n /\ m.cost = 0 /\ m.resp = "ok"
    /\ result.skipped_protected = 0
    /\ result.updated >= 1

(***************************************************************************)
(* C17                                                                      *)
(***************************************************************************)
\* The current cost a resolution is compared against: absent counts as 0.
KnownOrZero(e) == IF e.cost # Absent THEN Val(e.cost) ELSE 0

\* The resolved rows by the sign of feed cost minus current cost.
RowsBySign(sign) ==
    { e.row : e \in { x \in Range(resolved) :
                        /\ x.id # None
                        /\ CASE sign = 1 -> rows[x.row].cost > KnownOrZero(x)
                             [] sign = -1 -> rows[x.row].cost < KnownOrZero(x)
                             [] OTHER -> rows[x.row].cost = KnownOrZero(x) } }

\* C17: run_sync_preview classifies every resolved row into exactly one of
\* increase, decrease or unchanged by comparing the feed cost with the
\* current cost, an absent current cost counting as 0; an unresolved row is
\* recorded only in skus_not_found.
C17_PreviewClassifiesEachRow ==
    mode = "run_sync_preview"
        => /\ OneResolutionPerRow
           /\ result.increases = Cardinality(RowsBySign(1))
           /\ result.decreases = Cardinality(RowsBySign(-1))
           /\ result.unchanged = Cardinality(RowsBySign(0))
           /\ result.skus_not_found = SkusOfRows(UnresolvedRows)
           /\ result.increases + result.decreases + result.unchanged
                + Len(result.skus_not_found) = Len(resolved)

\* A finished preview with a row not found and a row of cost 0 unchanged
\* against an entry without a cost.
C17_Witness ==
    /\ mode = "run_sync_preview"
    /\ pc = "done" /\ result.error = None
    /\ Len(resolved) = 2
    /\ Len(result.skus_not_found) = 1
    /\ result.unchanged = 1
    /\ UnknownCostRows # { }

(***************************************************************************)
(* Two runs one after the other for the same account, on the same feed,    *)
(* flags and catalog snapshot: a preview, then a second preview or a        *)
(* run_sync.  The second run finds the store as the first one left it.      *)
(***************************************************************************)
SecondRuns == { "run_sync_preview", "run_sync" }

InitTwice ==
    /\ mode = "run_sync_preview"
    /\ rows \in Feeds
    /\ \E f \in FuzzyChoices : fuzzy_match = f[1] /\ fuzzy_threshold = f[2]
    /\ call \in { [fn |-> "two runs", second |-> m, run |-> 1, first |-> Absent] :
                    m \in SecondRuns }
    \* the parameters of the second run; the preview has neither
    /\ only_increase_cost \in (IF call.second = "run_sync" THEN BOOLEAN ELSE { FALSE })
    /\ markup_percent \in (IF call.second = "run_sync" THEN { Absent, Some(50) }
                           ELSE { Some(0) })
    /\ store \in StoreChoices
    /\ accepted_refresh = 1
    /\ issued = 1
    /\ catalog = InitialCatalog
    /\ now = 0
    /\ faults = 0
    /\ pc = "start"
    /\ NoLocals

\* The first run has returned; the second entry point is called with the
\* same account, rows and flags.  What the first run returned and resolved is
\* kept for the comparison.
RunAgain ==
    /\ call.fn = "two runs"
    /\ call.run = 1
    /\ pc = "done"
    /\ call' = [call EXCEPT !.run = 2,
                            !.first = Some([result |-> result, resolved |-> resolved,
                                            match_by_code_first |-> match_by_code_first])]
    /\ mode' = call.second
    /\ pc' = "start"
    /\ conn_row' = Absent
    /\ token' = 0
    /\ match_by_code_first' = FALSE
    /\ products' = << >>
    /\ out' = << >>
    /\ after' = 0
    /\ i' = 1
    /\ node_id' = None
    /\ current_cost' = Absent
    /\ retrying' = FALSE
    /\ retry_op' = "none"
    /\ result' = IF call.second = "run_sync" THEN SyncResult0(MarkupVal(markup_percent))
                 ELSE PreviewResult0
    /\ wire' = NoWire
    /\ ncalls' = 0
    /\ submitted' = << >>
    /\ resolved' = << >>
    /\ mutations' = << >>
    /\ UNCHANGED << rows, only_increase_cost, fuzzy_match, fuzzy_threshold, markup_percent,
                    env, faults >>

\* The remote service of the comparison answers from its snapshot in both
\* runs: every catalog request is answered, except that a request may be
\* answered 401 once per operation (the access token has expired), and then
\* the token endpoint answers the refresh with a pair the code persists; the
\* schema (the probe's answer) is the same in both runs.
RemoteAnswersAlike ==
    Called =>
        /\ wire'.resp \in { "ok", "unauth" } \/ (wire'.op = "probe" /\ wire'.resp = "fail")
        /\ wire'.resp = "unauth"
             => wire'.op # "probe" /\ ~retrying /\ issued < MaxIssued
        /\ wire'.op = "token"
             => wire'.resp = "ok" /\ Val(store').refresh_token = issued'
        /\ (wire'.op = "probe" /\ call.run = 2)
             => match_by_code_first' = Val(call.first).match_by_code_first

NextTwice ==
    \/ Connect /\ RemoteAnswersAlike
    \/ GetValidAccessToken /\ RemoteAnswersAlike
    \/ Probe /\ RemoteAnswersAlike
    \/ FetchAllPage /\ RemoteAnswersAlike
    \/ ResolveRow /\ RemoteAnswersAlike
    \/ FindPage /\ RemoteAnswersAlike
    \/ Mutate /\ RemoteAnswersAlike
    \/ RefreshAndRetry /\ RemoteAnswersAlike
    \/ RunAgain

SpecTwice == InitTwice /\ [][NextTwice]_vars

(***************************************************************************)
(* C18                                                                      *)
(***************************************************************************)
\* What a preview reports.
PreviewCounts(res) ==
    << res.increases, res.decreases, res.unchanged, res.fuzzy_matched_count,
       res.skus_not_found >>

WrittenBefore(e) ==
    /\ ~fuzzy_match
    /\ \E m \in Range(mutations) :
         /\ m.row < e.row
         /\ m.node_id = e.id
         /\ m.resp = "ok"
         /\ e.cost = Some(m.cost)

MaxCursor == 2

\* The nodes of one answered page: none, a node without an id, a page of
\* PageSize entries of the catalog, or its last two entries.
PageNodeChoices ==
    { << >>, << [id |-> None, name |-> <<"a", "b">>, code |-> << >>,
                 internalUnitCost |-> Absent] >> }
    \cup { PageNodes(InitialCatalog, a, TRUE) : a \in 0 .. (Len(InitialCatalog) - 1) }
    \cup { SubSeq(InitialCatalog, 2, 3) }

\* An answer to one page request.
PageResponses ==
    { [status |-> st, nodes |-> n, hasNextPage |-> h, endCursor |-> c] :
        st \in { "ok", "unauth", "fail" }, n \in PageNodeChoices, h \in BOOLEAN,
        c \in 0 .. MaxCursor }

ScanCalls ==
    { [fn |-> "_find_id_by_sku", sku |-> k, match_by_code_first |-> m] :
        k \in { <<"a", "b">>, <<"k">>, <<"A", "b">> }, m \in BOOLEAN }
    \cup { [fn |-> "_fetch_all_products", sku |-> << >>, match_by_code_first |-> m] :
             m \in BOOLEAN }

\* The request for the page after a cursor and the answer to it, as the
\* last exchange on the wire.
PageWire(cursor, resp) ==
    [op |-> "page", tok |-> 0, row |-> 0, after |-> cursor, node_id |-> None, cost |-> 0,
     price |-> 0,
     resp |-> IF resp.status = "ok" /\ resp.hasNextPage THEN "more" ELSE resp.status,
     nodes |-> resp.nodes, hasNextPage |-> resp.hasNextPage, endCursor |-> resp.endCursor]

\* The nodes of a page that the loop of _find_id_by_sku returns at: the code
\* (with match_by_code_first) or the name, stripped, is the identifier.
MatchingNodes(sku, nodes, by_code) ==
    { n \in DOMAIN nodes : \/ by_code /\ Strip(nodes[n].code) = sku
                           \/ Strip(nodes[n].name) = sku }

MatchedIn(sku, nodes, by_code) == MatchingNodes(sku, nodes, by_code) # { }

InitScan ==
    /\ call \in ScanCalls
    /\ mode = call.fn
    /\ pc = "scan"
    /\ NoRun

\* A variant of the iteration below that gives up after one page without a
\* match instead of following the cursor.
FindIdBySkuPage_FirstPageOnly ==
    /\ mode = "_find_id_by_sku"
    /\ pc = "scan"
    /\ \E resp \in PageResponses :
         /\ wire' = PageWire(after, resp)
         /\ LET hit == FindInNodes(call.sku, resp.nodes, call.match_by_code_first)
                found(r) == << [row |-> 1, id |-> r.id, cost |-> r.cost, fuzzy |-> FALSE] >>
            IN  CASE resp.status = "unauth" ->
                       \* TokenExpiredError
                       pc' = "raised" /\ UNCHANGED << after, resolved >>
                  [] resp.status = "fail" ->
                       pc' = "returned" /\ resolved' = found(NotFound) /\ after' = after
                  [] OTHER ->
                       IF MatchedIn(call.sku, resp.nodes, call.match_by_code_first)
                       THEN pc' = "returned" /\ resolved' = found(hit) /\ after' = after
                       ELSE IF ~resp.hasNextPage
                       THEN pc' = "returned" /\ resolved' = found(NotFound) /\ after' = after
                       ELSE IF resp.endCursor = 0
                       THEN pc' = "returned" /\ resolved' = found(NotFound)
                            /\ after' = resp.endCursor
                       ELSE pc' = "returned" /\ resolved' = found(NotFound)
                            /\ after' = resp.endCursor
    /\ UNCHANGED << args, env, faults, conn_row, token, match_by_code_first, products, out,
                    i, node_id, current_cost, retrying, retry_op, result, ncalls,
                    submitted, mutations >>

\* One iteration of the loop of _find_id_by_sku.  The number of requests is
\* not counted here: the loop has no counter.
FindIdBySkuPage ==
    /\ mode = "_find_id_by_sku"
    /\ pc = "scan"
    /\ \E resp \in PageResponses :
         /\ wire' = PageWire(after, resp)
         /\ LET hit == FindInNodes(call.sku, resp.nodes, call.match_by_code_first)
                found(r) == << [row |-> 1, id |-> r.id, cost |-> r.cost, fuzzy |-> FALSE] >>
            IN  CASE resp.status = "unauth" ->
                       \* TokenExpiredError
                       pc' = "raised" /\ UNCHANGED << after, resolved >>
                  [] resp.status = "fail" ->
                       pc' = "returned" /\ resolved' = found(NotFound) /\ after' = after
                  [] OTHER ->
                       IF MatchedIn(call.sku, resp.nodes, call.match_by_code_first)
                       THEN pc' = "returned" /\ resolved' = found(hit) /\ after' = after
                       ELSE IF ~resp.hasNextPage
                       THEN pc' = "returned" /\ resolved' = found(NotFound) /\ after' = after
                       ELSE IF resp.endCursor = 0
                       THEN pc' = "returned" /\ resolved' = found(NotFound)
                            /\ after' = resp.endCursor
                       ELSE pc' = "scan" /\ after' = resp.endCursor /\ resolved' = resolved
    /\ UNCHANGED << args, env, faults, conn_row, token, match_by_code_first, products, out,
                    i, node_id, current_cost, retrying, retry_op, result, ncalls,
                    submitted, mutations >>

\* A variant of the iteration below that returns without the nodes of the
\* last page.
FetchAllProductsPage_DropsLastPage ==
    /\ mode = "_fetch_all_products"
    /\ pc = "scan"
    /\ \E resp \in PageResponses :
         /\ Len(out) + Len(WithId(resp.nodes)) <= MaxProducts
         /\ wire' = PageWire(after, resp)
         /\ LET got == out \o WithId(resp.nodes)
            IN  CASE resp.status = "unauth" ->
                       pc' = "raised" /\ UNCHANGED << after, out, products >>
                  [] resp.status = "fail" ->
                       pc' = "returned" /\ products' = out /\ UNCHANGED << after, out >>
                  [] OTHER ->
                       IF ~resp.hasNextPage
                       THEN pc' = "returned" /\ products' = out /\ out' = out /\ after' = after
                       ELSE IF resp.endCursor = 0
                       THEN pc' = "returned" /\ products' = got /\ out' = got
                            /\ after' = resp.endCursor
                       ELSE pc' = "scan" /\ out' = got /\ after' = resp.endCursor
                            /\ products' = products
    /\ UNCHANGED << args, env, faults, conn_row, token, match_by_code_first,
                    i, node_id, current_cost, retrying, retry_op, result, ncalls,
                    submitted, resolved, mutations >>

\* One iteration of the loop of _fetch_all_products.  The remote holds at
\* most MaxProducts entries with an id; it may go on answering with pages
\* that add none.
FetchAllProductsPage ==
    /\ mode = "_fetch_all_products"
    /\ pc = "scan"
    /\ \E resp \in PageResponses :
         /\ Len(out) + Len(WithId(resp.nodes)) <= MaxProducts
         /\ wire' = PageWire(after, resp)
         /\ LET got == out \o WithId(resp.nodes)
            IN  CASE resp.status = "unauth" ->
                       pc' = "raised" /\ UNCHANGED << after, out, products >>
                  [] resp.status = "fail" ->
                       pc' = "returned" /\ products' = out /\ UNCHANGED << after, out >>
                  [] OTHER ->
                       IF ~resp.hasNextPage
                       THEN pc' = "returned" /\ products' = got /\ out' = got /\ after' = after
                       ELSE IF resp.endCursor = 0
                       THEN pc' = "returned" /\ products' = got /\ out' = got
                            /\ after' = resp.endCursor
                       ELSE pc' = "scan" /\ out' = got /\ after' = resp.endCursor
                            /\ products' = products
    /\ UNCHANGED << args, env, faults, conn_row, token, match_by_code_first,
                    i, node_id, current_cost, retrying, retry_op, result, ncalls,
                    submitted, resolved, mutations >>

NextScan == FindIdBySkuPage \/ FetchAllProductsPage

SpecScan == InitScan /\ [][NextScan]_vars

\* Every request carries a timeout of 30 s and the loop is the only thread of
\* the call: an iteration that can be taken is taken.
SpecScanFair == SpecScan /\ WF_vars(NextScan)

(***************************************************************************)
(* C20                                                                      *)
(***************************************************************************)
\* C20: for every finite feed and every sequence of remote responses,
\* run_sync and run_sync_preview eventually return a result: the per-row
\* paginated scan (_find_id_by_sku) and the full-catalog scan
\* (_fetch_all_products) each terminate, including when the remote service
\* keeps answering hasNextPage = true with a non-empty endCursor.
C20_ScansTerminate == <>(pc \in { "returned", "raised" })

(***************************************************************************)
(* parse_csv_from_bytes called on its own.  The content is text of lines   *)
(* ended by "\n" with cells separated by ","; quoted fields, a byte order  *)
(* mark and currency marks are outside the inputs, so the decoding, the     *)
(* re.sub on quotes and the removal of the mark change nothing here.        *)
(***************************************************************************)
\* number of lines of a content
MaxLines == 3

PartNum == << "P", "a", "r", "t", "_", "N", "u", "m" >>
TradeCost == << "T", "r", "a", "d", "e", "_", "C", "o", "s", "t" >>
Description == << "D", "e", "s", "c", "r", "i", "p", "t", "i", "o", "n" >>

\* s.split(sep), empty pieces kept: the pieces between the places of sep
SplitOn(s, sep) ==
    LET at == { n \in DOMAIN s : s[n] = sep }
        nth(j) == IF j = 0 THEN 0
                  ELSE IF j > Cardinality(at) THEN Len(s) + 1
                  ELSE CHOOSE x \in at : Cardinality({ y \in at : y < x }) = j - 1
    IN  [j \in 1 .. (Cardinality(at) + 1) |-> SubSeq(s, nth(j - 1) + 1, nth(j) - 1)]

\* list(csv.reader(io.StringIO(text))): one list of cells a line, the empty
\* list for a blank line, nothing for the end of the text after a newline.
csv_reader(text) ==
    LET pieces == SplitOn(text, "\n")
        lines == IF pieces[Len(pieces)] = << >> THEN SubSeq(pieces, 1, Len(pieces) - 1)
                 ELSE pieces
    IN  [n \in 1 .. Len(lines) |->
            IF lines[n] = << >> THEN << >> ELSE SplitOn(lines[n], ",")]

IsDigit(c) == c \in { "0", "1", "2", "3", "4", "5", "6", "7", "8", "9" }

DigitVal(c) ==
    CASE c = "0" -> 0 [] c = "1" -> 1 [] c = "2" -> 2 [] c = "3" -> 3 [] c = "4" -> 4
      [] c = "5" -> 5 [] c = "6" -> 6 [] c = "7" -> 7 [] c = "8" -> 8 [] c = "9" -> 9
      [] OTHER -> 0

AllDigits(s) == \A n \in DOMAIN s : IsDigit(s[n])

\* the number written by a sequence of digits
RECURSIVE DigitsVal(_)
DigitsVal(s) ==
    IF s = << >> THEN 0 ELSE 10 * DigitsVal(SubSeq(s, 1, Len(s) - 1)) + DigitVal(s[Len(s)])

\* float(s) for a decimal literal: optional sign, digits, optional point and
\* digits, at least one digit, blanks around allowed.  The value in cents
\* (two decimals are read), or Absent where float raises ValueError.
Float(s) ==
    LET t == Strip(s)
        negative == t # << >> /\ Head(t) = "-"
        signed == t # << >> /\ Head(t) \in { "-", "+" }
        body == IF signed THEN Tail(t) ELSE t
        parts == SplitOn(body, ".")
        whole == parts[1]
        frac == IF Len(parts) = 2 THEN parts[2] ELSE << >>
        frac2 == SubSeq(frac \o << "0", "0" >>, 1, 2)
        magnitude == 100 * DigitsVal(whole) + DigitsVal(frac2)
    IN  IF /\ Len(parts) <= 2
           /\ AllDigits(whole) /\ AllDigits(frac)
           /\ whole \o frac # << >>
        THEN Some(IF negative THEN 0 - magnitude ELSE magnitude)
        ELSE Absent

\* s.replace(",", "")
RemoveCommas(s) == SelectSeq(s, LAMBDA c : c # ",")

StripAll(row) == [n \in 1 .. Len(row) |-> Strip(row[n])]

\* fieldnames.index(name)
RECURSIVE IndexOf(_, _, _)
IndexOf(fieldnames, name, n) ==
    IF n > Len(fieldnames) THEN 0
    ELSE IF fieldnames[n] = name THEN n
    ELSE IndexOf(fieldnames, name, n + 1)

\* the first row whose stripped cells include both required names, or 0
RECURSIVE HeaderIdx(_, _)
HeaderIdx(all_rows, n) ==
    IF n > Len(all_rows) THEN 0
    ELSE IF { PartNum, TradeCost } \subseteq { Strip(all_rows[n][k]) : k \in DOMAIN all_rows[n] }
    THEN n
    ELSE HeaderIdx(all_rows, n + 1)

Max2(a, b) == IF a >= b THEN a ELSE b

\* A variant of the loop below that emits a row whose cost float() rejects
\* with cost 0.
RECURSIVE ParseRows_UnparsedAsZero(_, _, _, _, _)
ParseRows_UnparsedAsZero(all_rows, n, part_num_idx, trade_cost_idx, desc_idx) ==
    IF n > Len(all_rows) THEN << >>
    ELSE LET row == all_rows[n]
             rest == ParseRows_UnparsedAsZero(all_rows, n + 1, part_num_idx, trade_cost_idx,
                                              desc_idx)
         IN  IF Len(row) < Max2(part_num_idx, trade_cost_idx) THEN rest
             ELSE IF Strip(row[part_num_idx]) = << >> THEN rest
             ELSE << [sku |-> Strip(row[part_num_idx]),
                      cost |-> IF Float(Strip(RemoveCommas(Strip(row[trade_cost_idx])))) = Absent
                               THEN 0
                               ELSE Val(Float(Strip(RemoveCommas(Strip(row[trade_cost_idx]))))),
                      description |-> IF desc_idx # 0 /\ Len(row) >= desc_idx
                                      THEN Strip(row[desc_idx]) ELSE << >>] >> \o rest

\* The loop over all_rows[header_idx + 1:], from row n on: short rows, rows
\* without an identifier and rows whose cost float() rejects are skipped.
RECURSIVE ParseRows(_, _, _, _, _)
ParseRows(all_rows, n, part_num_idx, trade_cost_idx, desc_idx) ==
    IF n > Len(all_rows) THEN << >>
    ELSE LET row == all_rows[n]
             rest == ParseRows(all_rows, n + 1, part_num_idx, trade_cost_idx, desc_idx)
         IN  IF Len(row) < Max2(part_num_idx, trade_cost_idx) THEN rest
             ELSE IF Strip(row[part_num_idx]) = << >> THEN rest
             ELSE IF Float(Strip(RemoveCommas(Strip(row[trade_cost_idx])))) = Absent THEN rest
             ELSE << [sku |-> Strip(row[part_num_idx]),
                      cost |-> Val(Float(Strip(RemoveCommas(Strip(row[trade_cost_idx]))))),
                      description |-> IF desc_idx # 0 /\ Len(row) >= desc_idx
                                      THEN Strip(row[desc_idx]) ELSE << >>] >> \o rest

\* parse_csv_from_bytes: the rows, or the ValueError's message.
parse_csv_from_bytes(content) ==
    LET all_rows == csv_reader(content)
        header_idx == HeaderIdx(all_rows, 1)
    IN  IF header_idx = 0
        THEN [rows |-> << >>, error |-> "CSV must contain columns Part_Num and Trade_Cost"]
        ELSE LET fieldnames == StripAll(all_rows[header_idx])
                 parsed == ParseRows(all_rows, header_idx + 1,
                                     IndexOf(fieldnames, PartNum, 1),
                                     IndexOf(fieldnames, TradeCost, 1),
                                     IndexOf(fieldnames, Description, 1))
             IN  IF parsed = << >>
                 THEN [rows |-> << >>, error |-> "No valid rows to process"]
                 ELSE [rows |-> parsed, error |-> None]

\* Lines a content is made of: two header rows, data rows that are valid,
\* without identifier, with a cost that is no number, with a negative cost,
\* too short, blank, and with blanks around the cells.
CsvLines ==
    { PartNum \o << "," >> \o TradeCost,
      Description \o << ",", " " >> \o TradeCost \o << " ", "," >> \o PartNum,
      << "a", "b", ",", "5" >>,
      << "d", ",", "7", ",", "k" >>,
      << ",", "5" >>,
      << "a", "b", ",", "x" >>,
      << "k", ",", "-", "5" >>,
      << "a", "b" >>,
      << >>,
      << " ", "c", " ", ",", " ", "1", ".", "5", " " >> }

RECURSIVE JoinLines(_)
JoinLines(lines) ==
    IF lines = << >> THEN << >> ELSE Head(lines) \o << "\n" >> \o JoinLines(Tail(lines))

RECURSIVE SeqsOfLines(_)
SeqsOfLines(n) ==
    IF n = 0 THEN { << >> }
    ELSE LET shorter == SeqsOfLines(n - 1)
         IN  shorter \cup { Append(q, l) : q \in { x \in shorter : Len(x) = n - 1 },
                                           l \in CsvLines }

Contents == { JoinLines(q) : q \in SeqsOfLines(MaxLines) }

InitParse ==
    /\ mode = "parse_csv_from_bytes"
    /\ call \in { [fn |-> "parse_csv_from_bytes", content |-> c] : c \in Contents }
    /\ pc = "call"
    /\ NoRun

\* The call returns its rows (pc = "returned") or raises ValueError.
ParseCsvFromBytes ==
    /\ mode = "parse_csv_from_bytes"
    /\ pc = "call"
    /\ result' = parse_csv_from_bytes(call.content)
    /\ pc' = IF result'.error = None THEN "returned" ELSE "raised"
    /\ UNCHANGED << args, env, faults, locals, wire, ncalls, submitted, resolved, mutations >>

SpecParse == InitParse /\ [][ParseCsvFromBytes]_vars

(***************************************************************************)
(* C21                                                                      *)
(***************************************************************************)
\* The row names both required columns.
NamesColumns(row) ==
    /\ \E k \in DOMAIN row : Strip(row[k]) = PartNum
    /\ \E k \in DOMAIN row : Strip(row[k]) = TradeCost

HeaderRows(all_rows) == { n \in DOMAIN all_rows : NamesColumns(all_rows[n]) }

\* The least of a non-empty set of numbers, 0 for the empty set.
Least(S) == IF S = { } THEN 0 ELSE CHOOSE n \in S : \A m \in S : n <= m

\* The place of a column: the first header cell with its name, 0 if none.
ColumnOf(header, name) == Least({ k \in DOMAIN header : Strip(header[k]) = name })

\* The cell of a row in a column, empty where the row has none.
CellOf(row, col) == IF col \in DOMAIN row THEN Strip(row[col]) ELSE << >>

\* The data rows after header row h with an identifier and a cost that is a
\* number.
ValidRows(all_rows, h, part_col, cost_col) ==
    { n \in DOMAIN all_rows :
        /\ n > h
        /\ CellOf(all_rows[n], part_col) # << >>
        /\ Float(CellOf(all_rows[n], cost_col)) # Absent }

\* The returned rows are the valid rows, in input order.
ReturnedAre(returned, all_rows, valid, part_col, cost_col, desc_col) ==
    /\ Len(returned) = Cardinality(valid)
    /\ \A j \in DOMAIN returned :
         \E n \in valid :
           /\ Cardinality({ m \in valid : m < n }) = j - 1
           /\ returned[j].sku = CellOf(all_rows[n], part_col)
           /\ returned[j].cost = Val(Float(CellOf(all_rows[n], cost_col)))
           /\ returned[j].description = CellOf(all_rows[n], desc_col)

ParsedWithColumns(all_rows, h, part_col, cost_col, desc_col) ==
    IF ValidRows(all_rows, h, part_col, cost_col) = { }
    THEN /\ pc = "raised"
         /\ result.error = "No valid rows to process"
         /\ result.error # "CSV must contain columns Part_Num and Trade_Cost"
    ELSE /\ pc = "returned"
         /\ ReturnedAre(result.rows, all_rows, ValidRows(all_rows, h, part_col, cost_col),
                        part_col, cost_col, desc_col)

ParsedWithHeader(all_rows, h) ==
    IF h = 0
    THEN /\ pc = "raised"
         /\ result.error = "CSV must contain columns Part_Num and Trade_Cost"
    ELSE ParsedWithColumns(all_rows, h, ColumnOf(all_rows[h], PartNum),
                           ColumnOf(all_rows[h], TradeCost), ColumnOf(all_rows[h], Description))

ParsedFrom(all_rows) == ParsedWithHeader(all_rows, Least(HeaderRows(all_rows)))

\* C21: parse_csv_from_bytes returns, in input order, exactly the data rows
\* after the header row that have a non-empty identifier and a numerically
\* parseable cost; rows failing either condition are absent and raise no
\* error; it raises a format error when no row contains both required column
\* names and a distinct format error when zero valid rows remain.
C21_ParsedRowsAreTheValidRows ==
    (mode = "parse_csv_from_bytes" /\ pc # "call") => ParsedFrom(csv_reader(call.content))

\* A returned call on a content with a line before the header, the header
\* with its columns in another order, a valid row after it.
C21_Witness ==
    /\ mode = "parse_csv_from_bytes" /\ pc = "returned"
    /\ call.content = JoinLines(<< << "a", "b", ",", "5" >>,
                                   Description \o << ",", " " >> \o TradeCost \o << " ", "," >>
                                       \o PartNum,
                                   << "d", ",", "7", ",", "k" >> >>)
    /\ result.rows = << [sku |-> << "k" >>, cost |-> 700, description |-> << "d" >>] >>

\* A call that raised for want of a valid row after the header: the rows
\* after it have no identifier, or a cost that is no number.
C21_WitnessNoValidRows ==
    /\ mode = "parse_csv_from_bytes" /\ pc = "raised"
    /\ call.content = JoinLines(<< PartNum \o << "," >> \o TradeCost,
                                   << ",", "5" >>, << "a", "b", ",", "x" >> >>)
    /\ result.error = "No valid rows to process"

(***************************************************************************)
(* C22                                                                      *)
(***************************************************************************)
\* C22: every FeedRow returned by parse_csv_from_bytes has cost >= 0: a data
\* row whose cost column parses to a negative number is not emitted as a row.
C22_CostsNonNegative ==
    (mode = "parse_csv_from_bytes" /\ pc = "returned")
        => \A j \in DOMAIN result.rows : result.rows[j].cost >= 0

(***************************************************************************)
(* The web handlers of app/main.py that write the credential store:        *)
(* GET /disconnect, POST /webhooks/jobber, GET /oauth/callback.  One        *)
(* request is handled; the store holds the row of account "acc-1" or none.  *)
(* An HMAC is the triple of its name, key and message: two are equal only   *)
(* for the same key and the same message.                                   *)
(***************************************************************************)
StoredAccount == "acc-1"

Hmac(key, msg) == << "hmac-sha256", key, msg >>

\* cookies._verify after cookies._sign: the value of a cookie signed with
\* the key, None for any other signature and for no cookie.
get_account_id_from_cookie(cookie, secret_key) ==
    IF cookie = Absent THEN None
    ELSE IF Val(cookie).sig # Hmac(secret_key, Val(cookie).value) THEN None
    ELSE Val(cookie).value

\* delete_connection: DELETE ... WHERE jobber_account_id = ?
delete_connection(st, jobber_account_id) ==
    IF jobber_account_id = StoredAccount THEN Absent ELSE st

\* The account cookies a request may carry: none, the signed cookie of the
\* stored account, one signed with another key.
AccountCookies ==
    { Absent,
      Some([value |-> StoredAccount, sig |-> Hmac("SECRET_KEY", StoredAccount)]),
      Some([value |-> StoredAccount, sig |-> Hmac("guess", StoredAccount)]) }

DisconnectRequests == { [fn |-> "disconnect", cookie |-> c] : c \in AccountCookies }

\* The account id the handler reads from the request's cookie.
RequestAccount == get_account_id_from_cookie(call.cookie, "SECRET_KEY")

\* GET /disconnect, up to the call of get_valid_access_token: without an
\* account id nothing is called and nothing is deleted.
DisconnectStart ==
    /\ mode = "disconnect"
    /\ pc = "request"
    /\ IF RequestAccount # None
       THEN pc' = "get_token" /\ result' = result
       ELSE /\ pc' = "responded"
            /\ result' = [status |-> 302, location |-> "/dashboard", delete_cookie |-> TRUE]
    /\ UNCHANGED << args, env, faults, locals, wire, ncalls, submitted, resolved, mutations >>

\* call_app_disconnect(token): whatever the remote answers, and when the
\* request fails, the handler goes on (except Exception: pass).
CallAppDisconnect ==
    /\ mode = "disconnect"
    /\ pc = "probe"
    /\ \E resp \in CatalogResponses :
         Sent([NoWire EXCEPT !.op = "appDisconnect", !.tok = token, !.resp = resp])
    /\ pc' = "delete"
    /\ UNCHANGED << args, env, faults, locals, result, submitted, resolved, mutations >>

\* A variant of the end of GET /disconnect that deletes the row only after
\* a remote call that succeeded.
DisconnectDelete_OnlyAfterRemote ==
    /\ mode = "disconnect"
    /\ pc \in { "delete", "done" }
    /\ store' = IF pc = "delete" /\ wire.resp = "ok"
                THEN delete_connection(store, RequestAccount) ELSE store
    /\ result' = [status |-> 302, location |-> "/dashboard", delete_cookie |-> TRUE]
    /\ pc' = "responded"
    /\ UNCHANGED << args, accepted_refresh, issued, catalog, now, faults, locals, wire, ncalls,
                    submitted, resolved, mutations >>

\* The end of GET /disconnect for a request with an account id, after the
\* remote call or after get_valid_access_token raised: the row is deleted
\* and the response deletes the account cookie.
DisconnectDelete ==
    /\ mode = "disconnect"
    /\ pc \in { "delete", "done" }
    /\ store' = delete_connection(store, RequestAccount)
    /\ result' = [status |-> 302, location |-> "/dashboard", delete_cookie |-> TRUE]
    /\ pc' = "responded"
    /\ UNCHANGED << args, accepted_refresh, issued, catalog, now, faults, locals, wire, ncalls,
                    submitted, resolved, mutations >>

\* The bodies of a webhook request: text that is no JSON, JSON that is no
\* object, and an event object with a topic ("" when missing) and an
\* accountId (Absent when missing).
WebhookBodies ==
    { [json |-> "invalid", topic |-> "", accountId |-> Absent],
      [json |-> "array", topic |-> "", accountId |-> Absent] }
    \cup { [json |-> "object", topic |-> t, accountId |-> a] :
             t \in { "APP_DISCONNECT", "app_disconnect", "CLIENT_CREATE", "" },
             a \in { Absent, Some("acc-1"), Some("acc-2") } }

\* A webhook request: the configured client secret, the body, and the
\* signature header: none, the HMAC of the body under the client secret,
\* under another key, or the HMAC of another body.
WebhookRequests ==
    UNION { { [fn |-> "webhook_jobber", client_secret |-> k, body |-> b, signature |-> g] :
                g \in { Absent, Some(Hmac(k, b)), Some(Hmac("other-key", b)),
                        Some(Hmac(k, [b EXCEPT !.json = "other body"])) } } :
            k \in { "", "client-secret" }, b \in WebhookBodies }

\* _verify_jobber_webhook
_verify_jobber_webhook(client_secret, body, signature_header) ==
    IF client_secret = "" \/ signature_header = Absent THEN FALSE
    ELSE Hmac(client_secret, body) = Val(signature_header)

\* topic.upper(), on the topics of WebhookBodies
Upper(topic) == IF topic = "app_disconnect" THEN "APP_DISCONNECT" ELSE topic

\* A variant of the handler below that does not verify the signature.
WebhookJobber_Unverified ==
    /\ mode = "webhook_jobber"
    /\ pc = "request"
    /\ IF call.body.json = "invalid"
       THEN /\ result' = [status |-> 400, error |-> "Invalid JSON"]
            /\ pc' = "responded"
            /\ store' = store
       ELSE IF call.body.json # "object"
       THEN /\ result' = result
            /\ pc' = "raised"
            /\ store' = store
       ELSE /\ result' = [status |-> 200, error |-> None]
            /\ pc' = "responded"
            /\ store' = IF Upper(call.body.topic) = "APP_DISCONNECT" /\ call.body.accountId # Absent
                        THEN delete_connection(store, Val(call.body.accountId))
                        ELSE store
    /\ UNCHANGED << args, accepted_refresh, issued, catalog, now, faults, locals, wire, ncalls,
                    submitted, resolved, mutations >>

\* POST /webhooks/jobber.  A JSON body that is no object makes data.get
\* raise: the handler answers nothing itself.
WebhookJobber ==
    /\ mode = "webhook_jobber"
    /\ pc = "request"
    /\ IF ~_verify_jobber_webhook(call.client_secret, call.body, call.signature)
       THEN /\ result' = [status |-> 401, error |-> "Invalid signature"]
            /\ pc' = "responded"
            /\ store' = store
       ELSE IF call.body.json = "invalid"
       THEN /\ result' = [status |-> 400, error |-> "Invalid JSON"]
            /\ pc' = "responded"
            /\ store' = store
       ELSE IF call.body.json # "object"
       THEN /\ result' = result
            /\ pc' = "raised"
            /\ store' = store
       ELSE /\ result' = [status |-> 200, error |-> None]
            /\ pc' = "responded"
            /\ store' = IF Upper(call.body.topic) = "APP_DISCONNECT" /\ call.body.accountId # Absent
                        THEN delete_connection(store, Val(call.body.accountId))
                        ELSE store
    /\ UNCHANGED << args, accepted_refresh, issued, catalog, now, faults, locals, wire, ncalls,
                    submitted, resolved, mutations >>

\* The requests of GET /oauth/callback: code and state query parameters and
\* the state cookie, each missing, empty or set.
CallbackRequests ==
    { [fn |-> "oauth_callback", code |-> c, state_param |-> p, state_cookie |-> k] :
        c \in { Absent, Some(""), Some("code-1") },
        p \in { Absent, Some(""), Some("state-1"), Some("state-2") },
        k \in { Absent, Some(""), Some("state-1") } }

\* Python's truth value of an optional string
Truthy(o) == o # Absent /\ Val(o) # ""

Redirect(url) == [status |-> 302, location |-> url, account_cookie |-> Absent]

\* save_connection: insert or replace the row of the account.
save_connection(st, jobber_account_id, jobber_account_name, access, refresh, expires_at) ==
    IF jobber_account_id = StoredAccount
    THEN Some([jobber_account_name |-> jobber_account_name, access_token |-> access,
               refresh_token |-> refresh, access_token_expires_at |-> expires_at])
    ELSE st

\* A variant of the checks below that accepts any state parameter when the
\* request carries no state cookie.
CallbackCheck_CookieOptional ==
    /\ mode = "oauth_callback"
    /\ pc = "request"
    /\ IF ~Truthy(call.code)
       THEN pc' = "responded" /\ result' = Redirect("/dashboard?error=no_code")
       ELSE IF ~Truthy(call.state_param)
               \/ (Truthy(call.state_cookie) /\ call.state_cookie # call.state_param)
       THEN pc' = "responded" /\ result' = Redirect("/dashboard?error=invalid_state")
       ELSE pc' = "exchange" /\ result' = result
    /\ UNCHANGED << args, env, faults, locals, wire, ncalls, submitted, resolved, mutations >>

\* GET /oauth/callback, the checks before the token exchange.
CallbackCheck ==
    /\ mode = "oauth_callback"
    /\ pc = "request"
    /\ IF ~Truthy(call.code)
       THEN pc' = "responded" /\ result' = Redirect("/dashboard?error=no_code")
       ELSE IF ~Truthy(call.state_cookie) \/ ~Truthy(call.state_param)
               \/ call.state_cookie # call.state_param
       THEN pc' = "responded" /\ result' = Redirect("/dashboard?error=invalid_state")
       ELSE pc' = "exchange" /\ result' = result
    /\ UNCHANGED << args, env, faults, locals, wire, ncalls, submitted, resolved, mutations >>

\* exchange_code_for_tokens: the token endpoint refuses (or answers without
\* a token), or issues the next pair.
ExchangeCode ==
    /\ mode = "oauth_callback"
    /\ pc = "exchange"
    /\ \/ /\ Sent([NoWire EXCEPT !.op = "token_exchange", !.resp = "fail"])
          /\ result' = Redirect("/dashboard?error=token_exchange")
          /\ pc' = "responded"
          /\ UNCHANGED << env, conn_row >>
       \/ \E e \in ExpiresInChoices :
            /\ issued < MaxIssued
            /\ Sent([NoWire EXCEPT !.op = "token_exchange", !.resp = "ok"])
            /\ issued' = issued + 1
            /\ accepted_refresh' = issued + 1
            /\ conn_row' = Some([access_token |-> issued + 1, refresh_token |-> issued + 1,
                                 expires_in |-> e])
            /\ result' = result
            /\ pc' = "account"
            /\ UNCHANGED << store, catalog, now >>
    /\ UNCHANGED << args, faults, token, match_by_code_first, products, out, after, i, node_id,
                    current_cost, retrying, retry_op, submitted, resolved, mutations >>

\* get_account_info and the rest of the handler: the account query fails or
\* returns no id, or the connection is saved and the account cookie set.  An
\* expires_in that int() rejects is stored as no expiry.
AccountInfo ==
    /\ mode = "oauth_callback"
    /\ pc = "account"
    /\ \E answer \in { "fail", "", StoredAccount } :
         /\ Sent([NoWire EXCEPT !.op = "account", !.tok = Val(conn_row).access_token,
                                !.resp = IF answer = "fail" THEN "fail" ELSE "ok"])
         /\ IF answer = "fail"
            THEN result' = Redirect("/dashboard?error=account_query") /\ store' = store
            ELSE IF answer = ""
            THEN /\ result' = Redirect("/dashboard?error=account_query&message=empty_account_id")
                 /\ store' = store
            ELSE /\ store' = save_connection(store, answer, "acct", Val(conn_row).access_token,
                                             Val(conn_row).refresh_token,
                                             IF Val(conn_row).expires_in.kind = "int"
                                             THEN NewExpiresAt(now, Val(conn_row).expires_in)
                                             ELSE Absent)
                 /\ result' = [status |-> 302, location |-> "/dashboard",
                               account_cookie |-> Some([value |-> answer,
                                                        sig |-> Hmac("SECRET_KEY", answer)])]
    /\ pc' = "responded"
    /\ UNCHANGED << args, accepted_refresh, issued, catalog, now, faults, locals, submitted,
                    resolved, mutations >>

\* The stored rows a request may find.
WebStoreChoices ==
    { Absent,
      Some([jobber_account_name |-> "acct", access_token |-> 1, refresh_token |-> 1,
            access_token_expires_at |-> Absent]),
      Some([jobber_account_name |-> "acct", access_token |-> 1, refresh_token |-> 1,
            access_token_expires_at |-> Some(REFRESH_BUFFER_SECONDS)]) }

InitWeb ==
    /\ call \in DisconnectRequests \cup WebhookRequests \cup CallbackRequests
    /\ mode = call.fn
    /\ pc = "request"
    /\ NoArgs
    /\ store \in WebStoreChoices
    /\ accepted_refresh = 1
    /\ issued = 1
    /\ catalog = << >>
    /\ now = 0
    /\ faults = 0
    /\ NoLocals

NextWeb ==
    \/ DisconnectStart
    \/ GetValidAccessToken
    \/ CallAppDisconnect
    \/ DisconnectDelete
    \/ WebhookJobber
    \/ CallbackCheck
    \/ ExchangeCode
    \/ AccountInfo

SpecWeb == InitWeb /\ [][NextWeb]_vars

\* C23: GET /disconnect with a valid account cookie ends with the account's
\* row deleted and the account cookie cleared, whether get_valid_access_token
\* raised or the remote appDisconnect call failed; and right after the
\* remote call, when it is made, the row is still stored: the local deletion
\* comes after it.
C23_DisconnectAlwaysClears ==
    (mode = "disconnect" /\ RequestAccount # None)
        => /\ pc = "responded" => (store = Absent /\ result.delete_cookie)
           /\ pc = "delete" => (wire.op = "appDisconnect" /\ store # Absent)

\* A request with a valid cookie whose remote appDisconnect call failed and
\* that has been answered.
C23_Witness ==
    /\ mode = "disconnect"
    /\ RequestAccount # None
    /\ pc = "responded"
    /\ wire.op = "appDisconnect"
    /\ wire.resp # "ok"
    /\ store = Absent

\* A request with a valid cookie for which no token could be obtained and
\* that has been answered.
C23_WitnessNoToken ==
    /\ mode = "disconnect"
    /\ RequestAccount # None
    /\ pc = "responded"
    /\ wire.op # "appDisconnect"
    /\ call.cookie # Absent

\* The request carries the HMAC of its body under the client secret, the
\* body is a JSON event object, and the event names an account.
SignedEventWithAccount ==
    /\ call.client_secret # ""
    /\ call.signature = Some(Hmac(call.client_secret, call.body))
    /\ call.body.json = "object"
    /\ call.body.accountId # Absent

\* What the handler's step does to the store and answers when the event is
\* a disconnect event, and when it is not.
WebhookDeletesWhen(is_disconnect) ==
    mode = "webhook_jobber" =>
        IF SignedEventWithAccount /\ is_disconnect
        THEN /\ store' = delete_connection(store, Val(call.body.accountId))
             /\ result'.status = 200
        ELSE store' = store

\* C24 as stated: POST /webhooks/jobber deletes the connection of the
\* event's account if and only if the signature is the valid HMAC of the
\* body, the body is valid JSON, the topic is APP_DISCONNECT and an
\* accountId is present, answering 200 also when that account has no stored
\* connection; in every other case the store is unchanged.
C24_DeletesIffTopicIsAppDisconnect ==
    [][WebhookDeletesWhen(call.body.topic = "APP_DISCONNECT")]_vars

\* C24 amended: the same, with the topic compared ignoring letter case, as
\* topic.upper() == "APP_DISCONNECT" does.
C24_DeletesIffTopicIsAppDisconnectAnyCase ==
    [][WebhookDeletesWhen(Upper(call.body.topic) = "APP_DISCONNECT")]_vars

\* A signed APP_DISCONNECT event for the stored account has been answered
\* with 200 and no row is stored.
C24_Witness ==
    /\ mode = "webhook_jobber"
    /\ pc = "responded"
    /\ SignedEventWithAccount
    /\ call.body.topic = "APP_DISCONNECT"
    /\ call.body.accountId = Some(StoredAccount)
    /\ result.status = 200
    /\ store = Absent

\* The request carries a code, a state cookie and a state parameter, and
\* the two states are equal.
StatesMatch ==
    /\ call.code # Absent
    /\ call.state_cookie # Absent
    /\ call.state_param # Absent
    /\ call.state_cookie = call.state_param

FoldStart == [bestScore |-> <<-1, 1>>, bestCandidate |-> Absent, tieFlag |-> FALSE]

\* A strictly higher score replaces the leader and clears the tie flag; an
\* equal score sets the tie flag.
FoldStep(acc, node, score) ==
    IF ScoreLess(acc.bestScore, score)
    THEN [bestScore |-> score, bestCandidate |-> Some(node), tieFlag |-> FALSE]
    ELSE IF ScoreEq(score, acc.bestScore)
    THEN [acc EXCEPT !.tieFlag = TRUE]
    ELSE acc

RECURSIVE Fold(_, _, _, _)
Fold(sku, candidates, preferCode, acc) ==
    IF candidates = << >> THEN acc
    ELSE Fold(sku, Tail(candidates), preferCode,
              FoldStep(acc, Head(candidates), NodeScore(sku, Head(candidates), preferCode)))

\* The leader is returned only if bestScore >= threshold and no tie is flagged.
FoldResult(acc, min_score) ==
    IF acc.bestCandidate # Absent /\ ScoreGeq(acc.bestScore, min_score) /\ ~acc.tieFlag
    THEN [id |-> Val(acc.bestCandidate).id,
          cost |-> _parse_current_cost(Val(acc.bestCandidate)),
          fuzzy |-> TRUE,
          name |-> Strip(Val(acc.bestCandidate).name)]
    ELSE NotFound

\* What the fold returns on the call's arguments.
FoldOfCall ==
    FoldResult(Fold(call.sku, call.products, call.match_by_code_first, FoldStart),
               call.fuzzy_threshold)

\* What the fuzzy loop of _resolve_from_list returns on the call's
\* arguments, when it is run.
FuzzyPassOfCall ==
    ResolveResult(NotFound, FALSE, call.fuzzy_threshold,
                  FuzzyPass(call.sku, call.products, call.match_by_code_first,
                            call.fuzzy_threshold, FuzzyStart))

\* No node of the call's list matches the identifier exactly.
NoExactMatch == \A n \in CallNodes : ~ExactAt(n)

\* C26: for every catalog, identifier and threshold > 0, the fuzzy loop of
\* _resolve_from_list, which tracks only the nodes scoring at or above the
\* threshold, returns what the fold over all candidates returns; and that is
\* what the call returns when the fuzzy pass is run.
C26_FuzzyPassIsTheFold ==
    (mode = "_resolve_from_list" /\ pc = "returned" /\ call.fuzzy_threshold[1] > 0)
        => /\ FuzzyPassOfCall = FoldOfCall
           /\ (NoExactMatch /\ ~call.exact_only)
                 => /\ resolved[1].id = FoldOfCall.id
                    /\ resolved[1].cost = FoldOfCall.cost
                    /\ resolved[1].fuzzy = FoldOfCall.fuzzy

\* A returned call whose fuzzy pass ran on a list in which two nodes tie
\* below the threshold, before a node that scores exactly the threshold and
\* is returned.
C26_Witness ==
    /\ mode = "_resolve_from_list" /\ pc = "returned"
    /\ call.fuzzy_threshold[1] > 0
    /\ NoExactMatch /\ ~call.exact_only
    /\ Len(call.products) = 3
    /\ ScoreLess(ScoreAt(1), call.fuzzy_threshold)
    /\ ScoreEq(ScoreAt(1), ScoreAt(2))
    /\ ScoreEq(ScoreAt(3), call.fuzzy_threshold)
    /\ resolved[1].fuzzy
    /\ resolved[1].id = call.products[3].id

\* The fuzzy pass is not run: exact_only is set or the threshold is not
\* above 0.
FuzzyPassOff == call.exact_only \/ call.fuzzy_threshold[1] <= 0

\* C27: _resolve_from_list runs the fuzzy pass only if the exact pass found
\* nothing, exact_only is not set and the threshold is above 0: a result
\* flagged as a fuzzy match is returned only when no entry of the catalog
\* equals the identifier after normalization, and with a threshold of 0 or
\* with exact_only an identifier without an exact match is not-found.
C27_FuzzyOnlyAfterExactAndWhenEnabled ==
    (mode = "_resolve_from_list" /\ pc = "returned")
        => /\ resolved[1].fuzzy => (NoExactMatch /\ ~FuzzyPassOff)
           /\ (FuzzyPassOff /\ NoExactMatch)
                 => (resolved[1].id = None /\ ~resolved[1].fuzzy /\ resolved[1].cost = Absent)

\* A returned call with threshold 0 and fuzzy matching enabled, on a list
\* with no exact match whose only node scores 0.8: not-found.
C27_Witness ==
    /\ mode = "_resolve_from_list" /\ pc = "returned"
    /\ call.fuzzy_threshold[1] = 0
    /\ ~call.exact_only
    /\ NoExactMatch
    /\ Len(call.products) = 1
    /\ ScoreEq(ScoreAt(1), <<80, 100>>)
    /\ resolved[1].id = None

\* A returned call whose result is a fuzzy match.
C27_WitnessFuzzy ==
    /\ mode = "_resolve_from_list" /\ pc = "returned"
    /\ resolved[1].fuzzy
    /\ resolved[1].id # None
    /\ NoExactMatch
    /\ call.fuzzy_threshold = <<80, 100>>

\* The nodes of the call's list that match the identifier exactly.
ExactNodes == { n \in CallNodes : ExactAt(n) }

\* C28: the exact pass of _resolve_from_list returns the first entry in
\* catalog order whose normalized code (only with match_by_code_first) or
\* normalized name equals the normalized identifier, with its cost and not
\* flagged as fuzzy: an earlier entry matching by name wins over a later
\* entry matching by code, and of two entries with the same name the first
\* is returned.
C28_ExactPassReturnsFirstMatch ==
    (mode = "_resolve_from_list" /\ pc = "returned" /\ ExactNodes # { })
        => /\ resolved[1].id = call.products[Least(ExactNodes)].id
           /\ resolved[1].cost = _parse_current_cost(call.products[Least(ExactNodes)])
           /\ ~resolved[1].fuzzy

\* A returned call on a list whose first node matches by name and whose
\* second node matches by code: the first is returned.
C28_Witness ==
    /\ mode = "_resolve_from_list" /\ pc = "returned"
    /\ call.match_by_code_first
    /\ Len(call.products) >= 2
    /\ _normalize(Strip(call.products[1].name)) = _normalize(call.sku)
    /\ _normalize(Strip(call.products[2].code)) = _normalize(call.sku)
    /\ call.products[1].id # call.products[2].id
    /\ resolved[1].id = call.products[1].id

\* A returned call on a list whose first two nodes are different entries
\* with the same normalized name, equal to the identifier: the first is
\* returned.
C28_WitnessSameName ==
    /\ mode = "_resolve_from_list" /\ pc = "returned"
    /\ Len(call.products) >= 2
    /\ _normalize(Strip(call.products[1].name)) = _normalize(call.sku)
    /\ _normalize(Strip(call.products[2].name)) = _normalize(call.sku)
    /\ call.products[1].id # call.products[2].id
    /\ resolved[1].id = call.products[1].id

(***************************************************************************)
(* C29                                                                      *)
(***************************************************************************)
\* The nodes of the page just answered that match the call's identifier.
MatchesOnPage(w) == MatchingNodes(call.sku, w.nodes, call.match_by_code_first)

\* What one iteration of the loop of _find_id_by_sku does, w being the
\* request it sent and the answer it got.
FindIteration(w) ==
    /\ w.op = "page"
    /\ w.after = after
    /\ pc' = "raised" <=> w.resp = "unauth"
    /\ (w.resp \in { "ok", "more" } /\ MatchesOnPage(w) # { })
          => /\ pc' = "returned"
             /\ resolved'[1].id = w.nodes[Least(MatchesOnPage(w))].id
             /\ resolved'[1].cost = _parse_current_cost(w.nodes[Least(MatchesOnPage(w))])
    /\ pc' = "scan"
          => /\ w.resp = "more"
             /\ MatchesOnPage(w) = { }
             /\ w.endCursor # 0
             /\ after' = w.endCursor
    /\ (pc' = "returned" /\ (MatchesOnPage(w) = { } \/ w.resp = "fail"))
          => /\ resolved'[1].id = None
             /\ resolved'[1].cost = Absent
             /\ w.resp = "fail" \/ ~w.hasNextPage \/ w.endCursor = 0

\* C29: _find_id_by_sku requests pages in cursor order, starting with no
\* cursor: each request carries the endCursor of the page before it.  It
\* returns at the first entry of a page whose code (only with
\* match_by_code_first) or name is the identifier, character for character,
\* and once it has returned it requests nothing more; without a match it
\* returns not-found only on a page with no next page, on a missing cursor
\* or on a failure other than 401, and a 401 raises.
C29_FindStopsAtFirstExactMatch ==
    [][mode = "_find_id_by_sku"
          => /\ (wire.op = "none" /\ pc = "scan") => after = 0
             /\ pc = "scan" => FindIteration(wire')
             /\ pc # "scan" => wire' = wire]_vars

\* A call with match_by_code_first that followed a cursor to a page whose
\* first node matches by code and whose second node matches by name, and
\* returned the first.
C29_Witness ==
    /\ mode = "_find_id_by_sku" /\ pc = "returned"
    /\ call.match_by_code_first
    /\ wire.after # 0
    /\ Len(wire.nodes) = 2
    /\ MatchesOnPage(wire) = { 1, 2 }
    /\ resolved[1].id = wire.nodes[1].id

\* A call for "Ab" that was answered a last page holding the entry named
\* "ab" and returned not-found.
C29_WitnessCase ==
    /\ mode = "_find_id_by_sku" /\ pc = "returned"
    /\ call.sku = <<"A", "b">>
    /\ wire.resp = "ok"
    /\ Len(wire.nodes) = 1
    /\ wire.nodes[1].name = <<"a", "b">>
    /\ wire.nodes[1].id # None
    /\ resolved[1].id = None

(***************************************************************************)
(* C30                                                                      *)
(***************************************************************************)
\* The entries of a page that have an id, in the page's order.
EntriesWithId(nodes) == SelectSeq(nodes, LAMBDA node : node.id # None)

\* What one iteration of the loop of _fetch_all_products does on a request
\* that succeeds, w being the request it sent and the answer it got.
FetchIteration(w) ==
    /\ w.op = "page"
    /\ w.after = after
    /\ w.resp \in { "ok", "more" } => out' = out \o EntriesWithId(w.nodes)
    /\ pc' = "scan" => (w.resp = "more" /\ w.endCursor # 0 /\ after' = w.endCursor)
    /\ (w.resp = "more" /\ w.endCursor # 0) => pc' = "scan"
    /\ w.resp = "ok" => (pc' = "returned" /\ products' = out')

\* C30: while every page request succeeds and every page with a next page
\* carries an endCursor, _fetch_all_products starts with no cursor, requests
\* each next page with the endCursor of the page before, appends to its list
\* the entries of each page that have an id, once each and in the page's
\* order, and at the page with hasNextPage false returns that list: every
\* entry with an id, exactly once, in page order.
C30_FetchAllReturnsEveryEntryOnce ==
    [][mode = "_fetch_all_products"
          => /\ (wire.op = "none" /\ pc = "scan") => (after = 0 /\ out = << >>)
             /\ pc = "scan" => FetchIteration(wire')
             /\ pc # "scan" => (wire' = wire /\ products' = products)]_vars

\* A call that followed cursors over three pages, one entry each, and
\* returned the three entries in page order.
C30_Witness ==
    /\ mode = "_fetch_all_products" /\ pc = "returned"
    /\ wire.resp = "ok"
    /\ wire.after # 0
    /\ wire.nodes = << InitialCatalog[3] >>
    /\ products = InitialCatalog

\* A call that was answered a page with a node without an id and returned
\* without it.
C30_WitnessNoId ==
    /\ mode = "_fetch_all_products" /\ pc = "returned"
    /\ wire.resp = "ok"
    /\ Len(wire.nodes) = 1
    /\ wire.nodes[1].id = None
    /\ Len(products) = 1

(***************************************************************************)
(* Runs with fuzzy matching on against a catalog with two entries of       *)
(* similar names, one a page.                                               *)
(***************************************************************************)
CloseNamesCatalog ==
    << [id |-> "id-1", name |-> <<"a", "b">>, code |-> << >>, internalUnitCost |-> Some(500)],
       [id |-> "id-4", name |-> <<"a", "b", "c">>, code |-> << >>,
        internalUnitCost |-> Some(400)] >>

InitFuzzy ==
    /\ mode \in { "run_sync", "run_sync_preview" }
    /\ rows \in Feeds
    /\ fuzzy_match = TRUE
    /\ fuzzy_threshold = 80
    /\ only_increase_cost \in (IF mode = "run_sync" THEN BOOLEAN ELSE { FALSE })
    /\ markup_percent = (IF mode = "run_sync" THEN Absent ELSE Some(0))
    /\ call = NoCall
    /\ store = Some([jobber_account_name |-> "acct", access_token |-> 1, refresh_token |-> 1,
                     access_token_expires_at |-> Absent])
    /\ accepted_refresh = 1
    /\ issued = 1
    /\ catalog = CloseNamesCatalog
    /\ now = 0
    /\ faults = 0
    /\ pc = "start"
    /\ conn_row = Absent
    /\ token = 0
    /\ match_by_code_first = FALSE
    /\ products = << >>
    /\ out = << >>
    /\ after = 0
    /\ i = 1
    /\ node_id = None
    /\ current_cost = Absent
    /\ retrying = FALSE
    /\ retry_op = "none"
    /\ result = IF mode = "run_sync" THEN SyncResult0(MarkupVal(markup_percent))
                ELSE PreviewResult0
    /\ wire = NoWire
    /\ ncalls = 0
    /\ submitted = << >>
    /\ resolved = << >>
    /\ mutations = << >>

NextFuzzy ==
    \/ Connect
    \/ GetValidAccessToken
    \/ Probe
    \/ FetchAllPage
    \/ ResolveRow
    \/ Mutate
    \/ RefreshAndRetry

SpecFuzzy == InitFuzzy /\ [][NextFuzzy]_vars

(***************************************************************************)
(* C31                                                                      *)
(***************************************************************************)
\* The catalog as a scan of this run reads it: with the codes only when the
\* probe found the code field.
CatalogAsRead ==
    [n \in DOMAIN catalog |->
        [id |-> catalog[n].id, name |-> catalog[n].name,
         code |-> IF match_by_code_first THEN catalog[n].code ELSE << >>,
         internalUnitCost |-> catalog[n].internalUnitCost]]

\* The fuzzy run has returned without error after a full-catalog scan that
\* read some pages and not all.
ReturnedOnPartialCatalog ==
    /\ mode \in { "run_sync", "run_sync_preview" }
    /\ fuzzy_match
    /\ pc = "done"
    /\ result.error = None
    /\ Len(resolved) = Len(rows)
    /\ 0 < Len(products)
    /\ Len(products) < Len(catalog)

\* Row j names, exactly, an entry of the catalog that the scan did not read.
EntryOnUnfetchedPage(j) ==
    LET hit == ExactPass(_normalize(rows[j].sku), CatalogAsRead, match_by_code_first)
    IN  hit.id # None /\ \A n \in DOMAIN products : products[n].id # hit.id

\* Row j was resolved as _resolve_from_list resolves it from the list read.
ResolvedAgainstList(j) ==
    LET r == _resolve_from_list(rows[j].sku, products, match_by_code_first, FALSE, threshold)
    IN  resolved[j].row = j /\ resolved[j].id = r.id /\ resolved[j].fuzzy = r.fuzzy

\* C31: when a page request of the fuzzy-mode full-catalog scan fails with a
\* non-401 error after some pages were read, the run goes on with the entries
\* read so far and no error: every row is resolved against that partial list,
\* and a row whose entry is on a page that was not read is reported in
\* skus_not_found.
C31_UnfetchedEntryIsNotFound ==
    ReturnedOnPartialCatalog
        => \A j \in DOMAIN rows :
             /\ ResolvedAgainstList(j)
             /\ EntryOnUnfetchedPage(j) => rows[j].sku \in Range(result.skus_not_found)

(***************************************************************************)
(* C32                                                                      *)
(***************************************************************************)
IsRun == mode \in { "run_sync", "run_sync_preview" }

\* The mutation requests issued for row k so far.
MutationsOfRow(k) == SelectSeq(mutations, LAMBDA m : m.row = k)

\* Row k is finished by this step: after it the row is resolved, no refresh
\* or retry is pending, and the last mutation request issued for the row, if
\* any, was answered with success or failure.
RowFinished(k) ==
    /\ Len(resolved') = k
    /\ resolved'[k].row = k
    /\ ~retrying'
    /\ pc' \notin { "refresh", "mutate" }
    /\ LET ms == SelectSeq(mutations', LAMBDA m : m.row = k)
       IN  ms # << >> => ms[Len(ms)].resp \in { "ok", "fail" }

\* C32: rows are processed strictly sequentially in feed order.  The run
\* moves from row i to row i + 1 only, and only when row i's resolution,
\* mutation and refresh-and-retry are finished; a catalog query for a row is
\* for the current row, with exactly the rows before it resolved, and a
\* mutation is for the current row, resolved; skus_not_found grows only by
\* the current row's identifier, once, as the run leaves the row, so its
\* identifiers are in feed order.
C32_RowsInFeedOrder ==
    [][IsRun =>
          /\ i' = i \/ (i' = i + 1 /\ RowFinished(i))
          /\ (Called /\ wire'.op = "page" /\ wire'.row # 0)
                => (wire'.row = i /\ Len(resolved) = i - 1)
          /\ (Called /\ wire'.op \in MutationOps)
                => (wire'.row = i /\ Len(resolved) = i /\ resolved[i].id = wire'.node_id)
          /\ \/ result'.skus_not_found = result.skus_not_found
             \/ /\ result'.skus_not_found = Append(result.skus_not_found, rows[i].sku)
                /\ i' = i + 1 \/ pc' = "done"]_vars

\* A finished run_sync of two rows: the first row's mutation was retried
\* after a refresh and failed, the second row was not found.
C32_Witness ==
    /\ mode = "run_sync" /\ pc = "done" /\ result.error = None
    /\ Len(rows) = 2
    /\ Len(MutationsOfRow(1)) = 2
    /\ MutationsOfRow(1)[1].resp = "unauth"
    /\ MutationsOfRow(1)[2].resp = "fail"
    /\ resolved[2].id = None
    /\ result.skus_not_found = << rows[1].sku, rows[2].sku >>

PageCalled == Called /\ wire'.op = "page"

FollowsCursor(k) ==
    /\ wire.op = "page"
    /\ wire.row = k
    /\ wire.resp = "ok"
    /\ HasNextPage(catalog, wire.after)
    /\ wire'.after = EndCursor(catalog, wire.after)

C34_FuzzyScansOnceElseEveryRowScans ==
    [][IsRun =>
          IF fuzzy_match
          THEN /\ PageCalled => /\ pc = "fetch_all"
                                /\ wire'.row = 0
                                /\ i = 1
                                /\ resolved = << >>
                                /\ products = << >>
               /\ (PageCalled /\ wire'.after # 0) => FollowsCursor(0)
               /\ (PageCalled /\ wire'.after = 0)
                     => \/ wire.op = "probe"
                        \/ wire.op = "token" /\ retrying /\ Len(submitted) <= 2
               /\ products' # products => (pc = "fetch_all" /\ pc' = "resolve")
               /\ pc' = "fetch_all" => pc \in { "probe", "fetch_all", "refresh" }
          ELSE /\ PageCalled => (pc = "find" /\ wire'.row = i /\ Len(resolved) = i - 1)
               /\ (PageCalled /\ wire'.after # 0) => FollowsCursor(i)
               /\ products' = << >>
               /\ pc # "fetch_all"]_vars

C34_Witness ==
    /\ mode = "run_sync"
    /\ fuzzy_match
    /\ pc = "done"
    /\ result.error = None
    /\ Len(products) = Len(catalog)
    /\ Len(products) >= 2
    /\ Len(resolved) = 2
    /\ mutations # << >>
    /\ \E n \in 1..Len(submitted) : submitted[n].ok

C34_WitnessRowScans ==
    /\ mode = "run_sync"
    /\ ~fuzzy_match
    /\ pc = "done"
    /\ Len(resolved) = 2
    /\ resolved[1].id # None
    /\ resolved[2].id # None
    /\ wire.op \in MutationOps
    /\ products = << >>

(***************************************************************************)
(* C35: a rate-limit delay lies between any two consecutive catalog         *)
(* requests of a run (probe, page query, mutation), whatever the answer to  *)
(* the earlier one, also between a request answered 401 and its retry after *)
(* the refresh: when a catalog request other than the run's first is sent,  *)
(* the run has slept after the request before it.                           *)
(***************************************************************************)
CatalogCalled == Called /\ wire'.op \in { "probe" } \cup CatalogOps

C35_DelayBetweenCatalogCalls ==
    [][(IsRun /\ CatalogCalled /\ pc # "probe") => wire.slept]_vars

\* The same for every request that is not the retry after a refresh.
DelayUnlessRetryAfterRefresh ==
    [][(IsRun /\ CatalogCalled /\ pc # "probe" /\ wire.op # "token") => wire.slept]_vars

(***************************************************************************)
(* C36: every feed row contributes to at most one of updated,               *)
(* skipped_protected and skus_not_found (run_sync) or of increases,         *)
(* decreases, unchanged and skus_not_found (run_sync_preview): a step adds  *)
(* at most one to one of them, for the current row, which has not           *)
(* contributed before and is then left.  A result returned with error null  *)
(* has as many contributions as the feed has rows; one returned with an     *)
(* error has at most as many as there are rows before the row the run       *)
(* stopped at.                                                              *)
(***************************************************************************)
Tallies(res) ==
    IF mode = "run_sync"
    THEN << res.updated, res.skipped_protected, Len(res.skus_not_found) >>
    ELSE << res.increases, res.decreases, res.unchanged, Len(res.skus_not_found) >>

RECURSIVE SumSeq(_)
SumSeq(s) == IF s = << >> THEN 0 ELSE s[1] + SumSeq(Tail(s))

Contributions(res) == SumSeq(Tallies(res))

C36_OneContributionPerRow ==
    [][IsRun =>
          LET before == Tallies(result)
              now_ == Tallies(result')
              changed == { n \in DOMAIN before : now_[n] # before[n] }
          IN  /\ Cardinality(changed) <= 1
              /\ \A n \in changed :
                    /\ now_[n] = before[n] + 1
                    /\ Contributions(result) = i - 1
                    /\ i' = i + 1 \/ pc' = "done"
              /\ pc' = "done"
                    => IF result'.error = None
                       THEN Contributions(result') = Len(rows)
                       ELSE Contributions(result') <= i' - 1]_vars

C36_Witness ==
    /\ mode = "run_sync"
    /\ pc = "done"
    /\ result.error = None
    /\ Len(rows) = 2
    /\ result.updated = 1
    /\ result.skipped_protected = 1
    /\ result.skus_not_found = << >>

C36_WitnessStopped ==
    /\ mode = "run_sync"
    /\ pc = "done"
    /\ result.error # None
    /\ Len(rows) = 2
    /\ i = 2
    /\ Contributions(result) = 1
    /\ Len(mutations) >= 3

C36_WitnessPreview ==
    /\ mode = "run_sync_preview"
    /\ pc = "done"
    /\ result.error = None
    /\ Len(rows) = 2
    /\ result.increases = 1
    /\ Len(result.skus_not_found) = 1

(***************************************************************************)
(* C37: fuzzy_matched_count is 0 in every run with fuzzy matching off; with *)
(* fuzzy matching on it is the number of rows processed so far that the     *)
(* fuzzy pass resolved, counted when the row is resolved, before price      *)
(* protection and mutation.  It never exceeds the number of resolved rows;  *)
(* it can exceed updated.                                                   *)
(***************************************************************************)
C37_FuzzyCountIsFuzzyResolutions ==
    IsRun =>
       /\ ~fuzzy_match => result.fuzzy_matched_count = 0
       /\ result.fuzzy_matched_count = Cardinality(FuzzyRows)
       /\ FuzzyRows \subseteq ResolvedRows
       /\ result.fuzzy_matched_count <= Cardinality(ResolvedRows)

\* A fuzzy-matched row that is protected-skipped is still counted.
C37_Witness ==
    /\ mode = "run_sync"
    /\ fuzzy_match
    /\ pc = "done"
    /\ result.error = None
    /\ result.fuzzy_matched_count = 1
    /\ result.updated = 0
    /\ result.skipped_protected = 1

\* A fuzzy-matched row whose mutation fails is still counted.
C37_WitnessFailedMutation ==
    /\ mode = "run_sync"
    /\ fuzzy_match
    /\ pc = "done"
    /\ result.error = None
    /\ result.fuzzy_matched_count > result.updated
    /\ result.skipped_protected = 0
    /\ mutations # << >>
    /\ mutations[Len(mutations)].resp = "fail"

\* The count is taken when the row is resolved, before its mutation is sent.
C37_WitnessBeforeMutation ==
    /\ pc = "mutate"
    /\ mutations = << >>
    /\ result.fuzzy_matched_count = 1

(***************************************************************************)
(* C38: after a successful refresh on a 401 the run sends the newly issued  *)
(* access token: every catalog request carries the run's current token,     *)
(* refresh_and_retry replaces it by the one just issued, which differs from *)
(* the one that was answered 401, and goes back to the operation that       *)
(* failed; the run never returns to an earlier token, so the token answered *)
(* 401 is not sent again.                                                   *)
(***************************************************************************)
RefreshedOnUnauthorized == pc = "refresh" /\ pc' \notin { "done", "raised" }

C38_NewTokenAfterReactiveRefresh ==
    [][IsRun =>
          /\ CatalogCalled => wire'.tok = token
          /\ pc = "refresh" => (wire.resp = "unauth" /\ wire.tok = token /\ wire.op \in CatalogOps)
          /\ RefreshedOnUnauthorized
                => /\ token' = issued'
                   /\ token' > token
                   /\ pc' = retry_op
                   /\ retrying'
          /\ (CatalogCalled /\ wire.op = "token" /\ pc # "probe")
                => (wire'.tok = issued /\ wire'.op \in CatalogOps)
          /\ pc \notin { "start", "get_token" } => token' >= token]_vars

C38_Witness ==
    /\ mode = "run_sync"
    /\ pc = "done"
    /\ result.error = None
    /\ Len(rows) = 2
    /\ Len(mutations) = 3
    /\ mutations[1].resp = "unauth"
    /\ mutations[2].resp = "ok"
    /\ mutations[3].resp = "ok"
    /\ wire.op \in MutationOps
    /\ wire.row = 2
    /\ wire.tok = issued
    /\ token > 1

(***************************************************************************)
(* C39: whenever the token endpoint answers a refresh with a new            *)
(* access/refresh pair, the step that received it (get_valid_access_token   *)
(* or refresh_and_retry) leaves that pair in the credential store, before   *)
(* any further request and before it returns or raises.                     *)
(***************************************************************************)
RefreshAnswered == Called /\ wire'.op = "token" /\ wire'.resp = "ok"

C39_IssuedPairIsPersisted ==
    [][(IsRun /\ RefreshAnswered)
          => /\ store' # Absent
             /\ Val(store').access_token = issued'
             /\ Val(store').refresh_token = accepted_refresh']_vars

(***************************************************************************)
(* Two runs for the same account at the same time.  Each run takes the      *)
(* steps of run_sync that touch the credentials, one store read, token      *)
(* request or store write at a time, so that the steps of the two runs      *)
(* interleave freely: conn_row is read (sync.py 417); get_valid_access_token*)
(* reads the row again and, when the refresh is due, exchanges the stored   *)
(* refresh token and writes the pair (jobber_oauth.py 113-137); a catalog   *)
(* request is sent, and on a 401 refresh_and_retry exchanges                *)
(* conn_row["refresh_token"] and writes the pair (sync.py 439-459).  The    *)
(* runs are kept in call.run.                                               *)
(***************************************************************************)
Runs == { 1, 2 }

Run0 == [pc |-> "start", conn_row |-> Absent, stored |-> Absent, token |-> 0,
         data |-> 0, expires_in |-> [kind |-> "missing", seconds |-> 0],
         retrying |-> FALSE, refreshes |-> 0, dropped |-> FALSE]

ConcurrentStoreChoices ==
    { st \in StoreChoices : st # Absent /\ Val(st).access_token # 0 /\ Val(st).refresh_token # 0 }

InitConcurrent ==
    /\ mode = "concurrent"
    /\ call = [fn |-> "run_sync", run |-> [r \in Runs |-> Run0]]
    /\ pc = "concurrent"
    /\ NoArgs
    /\ store \in ConcurrentStoreChoices
    /\ accepted_refresh = 1
    /\ issued = 1
    /\ catalog = << >>
    /\ now = 0
    /\ faults = 0
    /\ NoLocals

RunIs(r) == call.run[r]

RunBecomes(r, new) == call' = [call EXCEPT !.run[r] = new]

\* the run after a token request of its own
Refreshing(r) == [RunIs(r) EXCEPT !.refreshes = @ + 1]

OnlyTheRun ==
    UNCHANGED << mode, rows, only_increase_cost, fuzzy_match, fuzzy_threshold, markup_percent,
                 catalog, now, pc, locals, result, resolved, mutations >>

NoTokenRequest == UNCHANGED << accepted_refresh, issued, faults, wire, ncalls, submitted >>

\* conn_row = get_connection_by_account_id(account_id)
RunConnect(r) ==
    /\ RunIs(r).pc = "start"
    /\ RunBecomes(r, [RunIs(r) EXCEPT !.conn_row = get_connection_by_account_id(store),
                                      !.pc = "get_token"])
    /\ UNCHANGED store
    /\ NoTokenRequest
    /\ OnlyTheRun

\* get_valid_access_token: the row is read, and the stored access token
\* returned unless the refresh is due
RunReadStored(r) ==
    /\ RunIs(r).pc = "get_token"
    /\ LET row == get_connection_by_account_id(store)
       IN  IF RefreshDue(Val(row), now)
           THEN RunBecomes(r, [RunIs(r) EXCEPT !.stored = row, !.pc = "refresh_due"])
           ELSE RunBecomes(r, [RunIs(r) EXCEPT !.stored = row,
                                               !.token = Val(row).access_token,
                                               !.pc = "request"])
    /\ UNCHANGED store
    /\ NoTokenRequest
    /\ OnlyTheRun

\* refresh_access_token(rt), answered by the token endpoint
TokenRequest(rt, r_) ==
    /\ TokenAnswered(r_)
    /\ Sent([NoWire EXCEPT !.op = "token", !.tok = rt, !.resp = IF r_.ok THEN "ok" ELSE "fail"])
    /\ submitted' = Append(submitted, [rt |-> rt, ok |-> r_.ok])
    /\ IF r_.ok
       THEN accepted_refresh' = r_.g /\ issued' = r_.g
       ELSE UNCHANGED << accepted_refresh, issued >>

\* get_valid_access_token: data = refresh_access_token(refresh_token); a
\* failure, and an expires_in that int() rejects, are swallowed and the
\* stored access token is returned
RunProactiveRefresh(r) ==
    /\ RunIs(r).pc = "refresh_due"
    /\ LET rt == Val(RunIs(r).stored).refresh_token
       IN  \E r_ \in TokenAnswers(rt) :
             /\ TokenRequest(rt, r_)
             /\ IF ~r_.ok
                THEN RunBecomes(r, [Refreshing(r) EXCEPT !.token = Val(RunIs(r).stored).access_token,
                                                    !.pc = "request"])
                ELSE IF r_.expires_in.kind = "invalid"
                THEN RunBecomes(r, [Refreshing(r) EXCEPT !.token = Val(RunIs(r).stored).access_token,
                                                    !.dropped = TRUE,
                                                    !.pc = "request"])
                ELSE RunBecomes(r, [Refreshing(r) EXCEPT !.data = r_.g,
                                                    !.expires_in = r_.expires_in,
                                                    !.pc = "update_tokens"])
    /\ UNCHANGED store
    /\ OnlyTheRun

\* get_valid_access_token: update_tokens(...); return new_access
RunProactiveWrite(r) ==
    /\ RunIs(r).pc = "update_tokens"
    /\ store' = update_tokens(store, RunIs(r).data, RunIs(r).data,
                              NewExpiresAt(now, RunIs(r).expires_in))
    /\ RunBecomes(r, [RunIs(r) EXCEPT !.token = RunIs(r).data, !.pc = "request"])
    /\ NoTokenRequest
    /\ OnlyTheRun

\* a catalog request of the run: answered, or answered 401, which leads to
\* refresh_and_retry once
RunRequest(r) ==
    /\ RunIs(r).pc = "request"
    /\ \E resp \in { "ok", "unauth" } :
         /\ Sent([NoWire EXCEPT !.op = "page", !.tok = RunIs(r).token, !.row = r, !.resp = resp,
                                !.slept = RateLimitSleep(resp)])
         /\ RunBecomes(r, [RunIs(r) EXCEPT
                             !.pc = IF resp = "ok" \/ RunIs(r).retrying THEN "done"
                                    ELSE "refresh"])
    /\ UNCHANGED << store, accepted_refresh, issued, faults, submitted >>
    /\ OnlyTheRun

\* refresh_and_retry: data = refresh_access_token(conn_row["refresh_token"]);
\* a failure ends the run with an error, an expires_in that int() rejects
\* raises out of the run
RunReactiveRefresh(r) ==
    /\ RunIs(r).pc = "refresh"
    /\ LET rt == Val(RunIs(r).conn_row).refresh_token
       IN  \E r_ \in TokenAnswers(rt) :
             /\ TokenRequest(rt, r_)
             /\ IF ~r_.ok
                THEN RunBecomes(r, [Refreshing(r) EXCEPT !.pc = "done"])
                ELSE IF r_.expires_in.kind = "invalid"
                THEN RunBecomes(r, [Refreshing(r) EXCEPT !.dropped = TRUE, !.pc = "raised"])
                ELSE RunBecomes(r, [Refreshing(r) EXCEPT !.data = r_.g,
                                                    !.expires_in = r_.expires_in,
                                                    !.pc = "retry_update_tokens"])
    /\ UNCHANGED store
    /\ OnlyTheRun

\* refresh_and_retry: update_tokens(...); conn_row, token and headers take
\* the new pair and the operation is sent again
RunReactiveWrite(r) ==
    /\ RunIs(r).pc = "retry_update_tokens"
    /\ store' = update_tokens(store, RunIs(r).data, RunIs(r).data,
                              NewExpiresAt(now, RunIs(r).expires_in))
    /\ RunBecomes(r, [RunIs(r) EXCEPT
                        !.conn_row = Some([Val(RunIs(r).conn_row) EXCEPT
                                             !.access_token = RunIs(r).data,
                                             !.refresh_token = RunIs(r).data]),
                        !.token = RunIs(r).data,
                        !.retrying = TRUE,
                        !.pc = "request"])
    /\ NoTokenRequest
    /\ OnlyTheRun

NextConcurrent ==
    \E r \in Runs :
       \/ RunConnect(r)
       \/ RunReadStored(r)
       \/ RunProactiveRefresh(r)
       \/ RunProactiveWrite(r)
       \/ RunRequest(r)
       \/ RunReactiveRefresh(r)
       \/ RunReactiveWrite(r)

SpecConcurrent == InitConcurrent /\ [][NextConcurrent]_vars

(***************************************************************************)
(* C40: when two runs for the same account both attempt a refresh, then in  *)
(* every interleaving of their store reads, token requests and store writes *)
(* a write to the store leaves in it the refresh token the endpoint         *)
(* accepts at that moment, never one it has already exchanged, and once     *)
(* both runs have ended the store holds the pair the endpoint issued last.  *)
(***************************************************************************)
BothEnded == \A r \in Runs : RunIs(r).pc \in { "done", "raised" }

BothAttemptedRefresh == \A r \in Runs : RunIs(r).refreshes > 0

StoreHoldsLatestPair ==
    /\ Val(store).access_token = issued
    /\ Val(store).refresh_token = accepted_refresh

C40_StoreHoldsLatestPair ==
    [][mode = "concurrent" =>
          /\ store' # store => Val(store').refresh_token = accepted_refresh'
          /\ (BothEnded' /\ BothAttemptedRefresh') => StoreHoldsLatestPair']_vars

\* The same for the interleavings in which no token response is lost to the
\* conversion of expires_in.
NoPairDropped == \A r \in Runs : ~RunIs(r).dropped

LatestPairUnlessDropped ==
    [][(mode = "concurrent" /\ NoPairDropped') =>
          /\ store' # store => Val(store').refresh_token = accepted_refresh'
          /\ (BothEnded' /\ BothAttemptedRefresh') => StoreHoldsLatestPair']_vars

\* Both runs have refreshed and written their pair, one after the other.
BothRunsStoredAPair ==
    /\ mode = "concurrent"
    /\ BothEnded
    /\ NoPairDropped
    /\ \A r \in Runs : RunIs(r).data # 0
    /\ issued = 3
    /\ StoreHoldsLatestPair

\* One run holds a pair it has not written yet while the other submits the
\* refresh token that was exchanged for it.
RefreshesOverlap ==
    /\ mode = "concurrent"
    /\ \E r \in Runs, q \in Runs :
          /\ RunIs(r).pc \in { "update_tokens", "retry_update_tokens" }
          /\ RunIs(q).pc \in { "refresh_due", "refresh" }
          /\ Val(store).refresh_token # accepted_refresh

====
